---- MODULE Spec2Model ----
(***************************************************************************)
(* A model of the LoL cooldown tracker's timer core:                       *)
(*   - the timer store (store/useTimerStore.ts): five enemy slots and the  *)
(*     mutations on them, with the persist middleware's rehydration;       *)
(*   - the countdown observer (hooks/useCountdown.ts).                     *)
(*                                                                         *)
(* Encodings.                                                              *)
(*   number | null  is a tuple: <<>> is null, <<x>> is the number x.       *)
(*   A time in epoch milliseconds is a rational <<n, d>> in lowest terms   *)
(*   with d >= 1, because base / (1 + haste / 100) is not a whole number   *)
(*   of milliseconds in general (300 / 1.30 s).  Floating point rounding   *)
(*   is not modelled.  Date.now() is the integer variable now.             *)
(***************************************************************************)
EXTENDS Integers, Sequences, FiniteSets, TLC

\* ---------------------------------------------------------------- bounds

\* The clock never passes MaxClock (milliseconds since the model's epoch).
MaxClock == 81000
\* At most MaxOps store operations in one behaviour.
MaxOps == 4

\* ------------------------------------------------------------- arithmetic

Null == <<>>
Some(x) == <<x>>
IsNull(o) == o = <<>>
Val(o) == o[1]

Abs(x) == IF x < 0 THEN -x ELSE x

RECURSIVE GCD(_, _)
GCD(a, b) == IF b = 0 THEN a ELSE GCD(b, a % b)

\* The rational n / d (d > 0) in lowest terms.
Rat(n, d) ==
    LET g == GCD(Abs(n), d) IN
    IF g = 0 THEN <<0, 1>> ELSE <<n \div g, d \div g>>

RatOfInt(x) == <<x, 1>>
RatAddInt(r, x) == Rat(r[1] + x * r[2], r[2])
RatMulInt(r, x) == Rat(r[1] * x, r[2])
\* r > x, r <= x and r - x for a rational r and an integer x.
RatGtInt(r, x) == r[1] > x * r[2]
RatLeInt(r, x) == r[1] <= x * r[2]
RatSubInt(r, x) == Rat(r[1] - x * r[2], r[2])
\* Math.ceil(r / k) for an integer k > 0.
CeilDiv(r, k) == -((-r[1]) \div (r[2] * k))
Max(a, b) == IF a >= b THEN a ELSE b

\* ------------------------------------------------------- the timer store

NumSlots == 5

LEVEL_CYCLE == <<1, 6, 11, 16>>

\* LEVEL_CYCLE.indexOf(level), zero based; -1 when absent.
indexOf(level) ==
    IF \E k \in 1..Len(LEVEL_CYCLE) : LEVEL_CYCLE[k] = level
    THEN (CHOOSE k \in 1..Len(LEVEL_CYCLE) : LEVEL_CYCLE[k] = level) - 1
    ELSE -1

ultCooldownIndex(level) ==
    CASE level = 1 -> Null
      [] level = 6 -> Some(0)
      [] level = 11 -> Some(1)
      [] level = 16 -> Some(2)

createEmptyChampion ==
    [ id |-> "",
      name |-> "",
      ultBaseCooldowns |-> <<0, 0, 0>>,
      activeUltCooldown |-> Null,
      currentLevel |-> 1,
      abilityHaste |-> 0,
      ionianBoots |-> FALSE,
      cosmicInsight |-> FALSE,
      summonerHaste |-> 0,
      spell1Id |-> "SummonerFlash",
      spell2Id |-> "SummonerFlash",
      spell1BaseCooldown |-> 300,
      spell2BaseCooldown |-> 300,
      ultEndTime |-> Null,
      spell1EndTime |-> Null,
      spell2EndTime |-> Null ]

\* ultBaseCooldowns is a zero-based array in the source.
deriveActiveUltCooldown(level, ultBaseCooldowns) ==
    LET idx == ultCooldownIndex(level) IN
    IF ~IsNull(idx) THEN Some(ultBaseCooldowns[Val(idx) + 1]) ELSE Null

deriveSummonerHasteLargest(ionianBoots, cosmicInsight) ==
    IF cosmicInsight THEN 18 ELSE IF ionianBoots THEN 12 ELSE 0

\* (ionianBoots ? 12 : 0) + (cosmicInsight ? 18 : 0)
deriveSummonerHaste(ionianBoots, cosmicInsight) ==
    (IF ionianBoots THEN 12 ELSE 0) + (IF cosmicInsight THEN 18 ELSE 0)

\* validIndex that brings an index outside 0..4 to the nearest slot.
validIndexClamped(index) ==
    Some(IF index < 0 THEN 0 ELSE IF index > 4 THEN 4 ELSE index)

validIndex(index) ==
    IF index < 0 \/ index > 4 THEN Null ELSE Some(index)

\* A cooldown that falls by one hundredth of the base per point of haste.
calculateCooldownLinear(base, haste) == Rat(base * (100 - haste), 100)

\* base / (1 + haste / 100), in seconds, as a rational (haste > -100).
calculateCooldown(base, haste) == Rat(base * 100, 100 + haste)

\* Date.now() + effectiveCD * 1000
EndTimeAfter(clock, effectiveCD) == RatAddInt(RatMulInt(effectiveCD, 1000), clock)

VARIABLES
    enemies,    \* the store's slot collection: 0..4 -> slot record
    now,        \* Date.now()
    nops,       \* store operations performed so far
    last,       \* the last store operation called: [op, index, slot, keys]
    \* persistence (the persist middleware around the store)
    stored,     \* what AsyncStorage holds under "lol-timer-store"
    hydration,  \* "pending", "installed" (stored state set, callback not yet run), "done"
    loadClock,  \* the Date.now() the rehydration callback read
    \* one countdown observer (one useCountdown instance)
    obs,        \* "unmounted", "mounted", "gone"
    endTime,    \* the endTime argument of the last render
    remaining,  \* the remaining state (useState)
    returned,   \* what the hook returned at the last render
    intervalRef,    \* intervalRef.current: null or a handle
    intervals,  \* the live setInterval handles: [id, endTime of the tick closure]
    subscription,   \* the mounted effect's AppState subscription: null or an id
    subs,       \* the live AppState listeners: [id, endTime of the closure]
    ev,         \* the last observer event
    prevEnd,    \* the endTime argument of the render before the last endTime change
    tickAt,     \* null, or <<endTime, clock>> of the tick that set remaining
    zeroSeen,   \* a tick of the mounted effect has computed 0
    \* the champion search modal (handleSelect)
    selecting,  \* the selecting state: null or the id of the champion tapped
    rendered,   \* the selecting value the rendered cells and handler closed over
    fetches,    \* the handleSelect calls made: [id, champ, index, state]
    \* the ping sound module
    sound,      \* the module's sound: null or the sound object created
    loaded,     \* the module's loaded flag
    loading,    \* the Audio.Sound.createAsync calls made: [id, by, state]
    created,    \* the number of sound objects createAsync has made
    \* calls outside the store's state
    uiEv,       \* the last modal or sound event
    result,     \* the last call of a pure function: null or [base, haste, value]
    \* the objects behind the store's state
    objs,       \* the arrays and slot records allocated: object id -> value
    root,       \* the id of the array that state.enemies refers to
    snap,       \* what a reader holds: null or [root, slots, copy]
    \* the champion list of the search modals
    visible,    \* the visible prop of each card's modal: index -> boolean
    champListCache, \* the module's champListCache: null or a list
    listFetches,    \* the fetchChampionData calls made: [id, by, cancelled, state]
    \* one timer circle around the countdown observer
    prevRemainingRef,   \* prevRemainingRef.current
    notified    \* the end-times for which the expiry notification fired, in order

storeVars == <<enemies, nops, last>>
loadVars == <<stored, hydration, loadClock>>
obsVars == <<obs, endTime, remaining, returned, intervalRef, intervals,
             subscription, subs, ev, prevEnd, tickAt, zeroSeen>>

selectVars == <<selecting, rendered, fetches>>
soundVars == <<sound, loaded, loading, created>>
heapVars == <<objs, root, snap>>
listVars == <<visible, champListCache, listFetches>>
circleVars == <<prevRemainingRef, notified>>
extVars == <<objs, root, snap, visible, champListCache, listFetches,
             prevRemainingRef, notified>>
uiVars == <<selecting, rendered, fetches, sound, loaded, loading, created,
            uiEv, result, objs, root, snap, visible, champListCache,
            listFetches, prevRemainingRef, notified>>

vars == <<enemies, now, nops, last, stored, hydration, loadClock,
          obs, endTime, remaining, returned, intervalRef, intervals,
          subscription, subs, ev, prevEnd, tickAt, zeroSeen,
          selecting, rendered, fetches, sound, loaded, loading, created,
          uiEv, result, objs, root, snap, visible, champListCache,
          listFetches, prevRemainingRef, notified>>

\* The three end-times of the slot a call addresses, as the call finds them.
TimersOf(index) ==
    IF index \in DOMAIN enemies
    THEN [ultEndTime |-> enemies[index].ultEndTime,
          spell1EndTime |-> enemies[index].spell1EndTime,
          spell2EndTime |-> enemies[index].spell2EndTime]
    ELSE <<>>

NoCall == [op |-> "init", index |-> 0, slot |-> 0, keys |-> {}, arg |-> 0,
           before |-> <<>>, cycles |-> <<>>]

\* Bookkeeping of a call: keys are the fields a setChampion patch supplies, arg
\* is the argument that is neither the index nor the spell slot (0 when there
\* is none), before the end-times of the addressed slot at the call, cycles
\* the <<currentLevel, activeUltCooldown>> the slot had at each call of the
\* unbroken run of cycleLevel calls on it that this call continues.
CalledArgs(op, index, slot, keys, arg) ==
    /\ nops < MaxOps
    /\ nops' = nops + 1
    /\ last' = [op |-> op, index |-> index, slot |-> slot, keys |-> keys,
                arg |-> arg, before |-> TimersOf(index),
                cycles |-> IF op = "cycleLevel" /\ index \in DOMAIN enemies
                           THEN LET pre == <<enemies[index].currentLevel,
                                            enemies[index].activeUltCooldown>>
                                IN IF last.op = "cycleLevel" /\ last.index = index
                                   THEN Append(last.cycles, pre)
                                   ELSE <<pre>>
                           ELSE <<>>]
    /\ UNCHANGED <<loadVars, obsVars>>

CalledWith(op, index, slot, keys) == CalledArgs(op, index, slot, keys, 0)

Called(op, index, slot) == CalledWith(op, index, slot, {})

\* { ...champ, ...data }
Merge(champ, data) ==
    [f \in DOMAIN champ |-> IF f \in DOMAIN data THEN data[f] ELSE champ[f]]

\* setChampion without the re-derivation of activeUltCooldown.
setChampionKeepsPatch(index, data) ==
    LET i == validIndex(index) IN
    /\ CalledWith("setChampion", index, 0, DOMAIN data)
    /\ IF IsNull(i) THEN UNCHANGED enemies
       ELSE enemies' = [enemies EXCEPT ![Val(i)] = Merge(enemies[Val(i)], data)]
    /\ UNCHANGED now

setChampion(index, data) ==
    LET i == validIndex(index) IN
    /\ CalledWith("setChampion", index, 0, DOMAIN data)
    /\ IF IsNull(i) THEN UNCHANGED enemies
       ELSE LET updated == Merge(enemies[Val(i)], data) IN
            enemies' = [enemies EXCEPT ![Val(i)] =
                [updated EXCEPT !.activeUltCooldown =
                    deriveActiveUltCooldown(updated.currentLevel,
                                            updated.ultBaseCooldowns)]]
    /\ UNCHANGED now

\* cd[k] ?? 0 for the zero-based k
OrZero(cd, k) == IF k + 1 <= Len(cd) THEN cd[k + 1] ELSE 0

\* setChampionData that writes the new champion over the slot as it is.
setChampionDataKeepsSlot(index, detail) ==
    LET i == validIndex(index)
        cd == IF Len(detail.spells) >= 4 THEN detail.spells[4] ELSE <<0, 0, 0>>
        ultBaseCooldowns == <<OrZero(cd, 0), OrZero(cd, 1), OrZero(cd, 2)>>
    IN
    /\ CalledArgs("setChampionData", index, 0, {}, detail)
    /\ IF IsNull(i) THEN UNCHANGED enemies
       ELSE enemies' = [enemies EXCEPT ![Val(i)] =
                [@ EXCEPT
                    !.id = detail.id,
                    !.name = detail.name,
                    !.ultBaseCooldowns = ultBaseCooldowns,
                    !.currentLevel = 6,
                    !.activeUltCooldown = Some(ultBaseCooldowns[1])]]
    /\ UNCHANGED now

setChampionData(index, detail) ==
    LET i == validIndex(index)
        \* detail.spells[3]?.cooldown ?? [0, 0, 0]
        cd == IF Len(detail.spells) >= 4 THEN detail.spells[4] ELSE <<0, 0, 0>>
        ultBaseCooldowns == <<OrZero(cd, 0), OrZero(cd, 1), OrZero(cd, 2)>>
    IN
    /\ CalledArgs("setChampionData", index, 0, {}, detail)
    /\ IF IsNull(i) THEN UNCHANGED enemies
       ELSE enemies' = [enemies EXCEPT ![Val(i)] =
                [createEmptyChampion EXCEPT
                    !.id = detail.id,
                    !.name = detail.name,
                    !.ultBaseCooldowns = ultBaseCooldowns,
                    !.currentLevel = 6,
                    !.activeUltCooldown = Some(ultBaseCooldowns[1])]]
    /\ UNCHANGED now

\* clearChampion that leaves the slot's spells as they are.
clearChampionKeepsSpells(index) ==
    LET i == validIndex(index) IN
    /\ Called("clearChampion", index, 0)
    /\ IF IsNull(i) THEN UNCHANGED enemies
       ELSE enemies' = [enemies EXCEPT ![Val(i)] =
                [createEmptyChampion EXCEPT
                    !.spell1Id = enemies[Val(i)].spell1Id,
                    !.spell1BaseCooldown = enemies[Val(i)].spell1BaseCooldown,
                    !.spell2Id = enemies[Val(i)].spell2Id,
                    !.spell2BaseCooldown = enemies[Val(i)].spell2BaseCooldown]]
    /\ UNCHANGED now

clearChampion(index) ==
    LET i == validIndex(index) IN
    /\ Called("clearChampion", index, 0)
    /\ IF IsNull(i) THEN UNCHANGED enemies
       ELSE enemies' = [enemies EXCEPT ![Val(i)] = createEmptyChampion]
    /\ UNCHANGED now

\* cycleLevel that stops at level 16.
cycleLevelNoWrap(index) ==
    LET i == validIndex(index) IN
    /\ Called("cycleLevel", index, 0)
    /\ IF IsNull(i) THEN UNCHANGED enemies
       ELSE LET champ == enemies[Val(i)]
                currentIdx == indexOf(champ.currentLevel)
                nextIdx == IF currentIdx + 1 < Len(LEVEL_CYCLE) THEN currentIdx + 1
                           ELSE currentIdx
                level == LEVEL_CYCLE[nextIdx + 1]
            IN enemies' = [enemies EXCEPT ![Val(i)] =
                   [champ EXCEPT
                       !.currentLevel = level,
                       !.activeUltCooldown =
                           deriveActiveUltCooldown(level, champ.ultBaseCooldowns)]]
    /\ UNCHANGED now

\* cycleLevel that also resets the ultimate timer.
cycleLevelResetsTimer(index) ==
    LET i == validIndex(index) IN
    /\ Called("cycleLevel", index, 0)
    /\ IF IsNull(i) THEN UNCHANGED enemies
       ELSE LET champ == enemies[Val(i)]
                level == LEVEL_CYCLE[((indexOf(champ.currentLevel) + 1) % Len(LEVEL_CYCLE)) + 1]
            IN enemies' = [enemies EXCEPT ![Val(i)] =
                   [champ EXCEPT
                       !.currentLevel = level,
                       !.activeUltCooldown =
                           deriveActiveUltCooldown(level, champ.ultBaseCooldowns),
                       !.ultEndTime = Null]]
    /\ UNCHANGED now

cycleLevel(index) ==
    LET i == validIndex(index) IN
    /\ Called("cycleLevel", index, 0)
    /\ IF IsNull(i) THEN UNCHANGED enemies
       ELSE LET champ == enemies[Val(i)]
                currentIdx == indexOf(champ.currentLevel)
                nextIdx == (currentIdx + 1) % Len(LEVEL_CYCLE)
                level == LEVEL_CYCLE[nextIdx + 1]
            IN enemies' = [enemies EXCEPT ![Val(i)] =
                   [champ EXCEPT
                       !.currentLevel = level,
                       !.activeUltCooldown =
                           deriveActiveUltCooldown(level, champ.ultBaseCooldowns)]]
    /\ UNCHANGED now

setAbilityHaste(index, haste) ==
    LET i == validIndex(index) IN
    /\ Called("setAbilityHaste", index, 0)
    /\ IF IsNull(i) THEN UNCHANGED enemies
       ELSE enemies' = [enemies EXCEPT ![Val(i)].abilityHaste = haste]
    /\ UNCHANGED now

toggleIonianBoots(index) ==
    LET i == validIndex(index) IN
    /\ Called("toggleIonianBoots", index, 0)
    /\ IF IsNull(i) THEN UNCHANGED enemies
       ELSE LET champ == enemies[Val(i)]
                boots == ~champ.ionianBoots
            IN enemies' = [enemies EXCEPT ![Val(i)] =
                   [champ EXCEPT
                       !.ionianBoots = boots,
                       !.summonerHaste =
                           deriveSummonerHaste(boots, champ.cosmicInsight)]]
    /\ UNCHANGED now

toggleCosmicInsight(index) ==
    LET i == validIndex(index) IN
    /\ Called("toggleCosmicInsight", index, 0)
    /\ IF IsNull(i) THEN UNCHANGED enemies
       ELSE LET champ == enemies[Val(i)]
                cosmic == ~champ.cosmicInsight
            IN enemies' = [enemies EXCEPT ![Val(i)] =
                   [champ EXCEPT
                       !.cosmicInsight = cosmic,
                       !.summonerHaste =
                           deriveSummonerHaste(champ.ionianBoots, cosmic)]]
    /\ UNCHANGED now

\* setSummonerSpell that leaves the spell's timer as it is.
setSummonerSpellKeepsTimer(index, slot, spellId, cooldown) ==
    LET i == validIndex(index) IN
    /\ CalledArgs("setSummonerSpell", index, slot, {}, <<spellId, cooldown>>)
    /\ IF IsNull(i) THEN UNCHANGED enemies
       ELSE enemies' = [enemies EXCEPT ![Val(i)] =
                IF slot = 1
                THEN [@ EXCEPT !.spell1Id = spellId,
                               !.spell1BaseCooldown = cooldown]
                ELSE [@ EXCEPT !.spell2Id = spellId,
                               !.spell2BaseCooldown = cooldown]]
    /\ UNCHANGED now

setSummonerSpell(index, slot, spellId, cooldown) ==
    LET i == validIndex(index) IN
    /\ CalledArgs("setSummonerSpell", index, slot, {}, <<spellId, cooldown>>)
    /\ IF IsNull(i) THEN UNCHANGED enemies
       ELSE enemies' = [enemies EXCEPT ![Val(i)] =
                IF slot = 1
                THEN [@ EXCEPT !.spell1Id = spellId,
                               !.spell1BaseCooldown = cooldown,
                               !.spell1EndTime = Null]
                ELSE [@ EXCEPT !.spell2Id = spellId,
                               !.spell2BaseCooldown = cooldown,
                               !.spell2EndTime = Null]]
    /\ UNCHANGED now

\* startUltTimer that starts the ultimate timer of every slot that has one.
startUltTimerEverySlot(index) ==
    LET i == validIndex(index) IN
    /\ Called("startUltTimer", index, 0)
    /\ IF IsNull(i) THEN UNCHANGED enemies
       ELSE enemies' = [k \in DOMAIN enemies |->
                IF IsNull(enemies[k].activeUltCooldown) THEN enemies[k]
                ELSE [enemies[k] EXCEPT !.ultEndTime =
                        Some(EndTimeAfter(now,
                            calculateCooldown(Val(enemies[k].activeUltCooldown),
                                              enemies[k].abilityHaste)))]]
    /\ UNCHANGED now

\* startUltTimer that takes the first base cooldown when none is active.
startUltTimerAtAnyLevel(index) ==
    LET i == validIndex(index) IN
    /\ Called("startUltTimer", index, 0)
    /\ IF IsNull(i) THEN UNCHANGED enemies
       ELSE LET champ == enemies[Val(i)]
                base == IF IsNull(champ.activeUltCooldown)
                        THEN champ.ultBaseCooldowns[1]
                        ELSE Val(champ.activeUltCooldown)
                effectiveCD == calculateCooldown(base, champ.abilityHaste)
            IN enemies' = [enemies EXCEPT ![Val(i)].ultEndTime =
                               Some(EndTimeAfter(now, effectiveCD))]
    /\ UNCHANGED now

\* startUltTimer with the guard of startSpellTimer on the duration.
startUltTimerRefusesZero(index) ==
    LET i == validIndex(index) IN
    /\ Called("startUltTimer", index, 0)
    /\ IF IsNull(i) THEN UNCHANGED enemies
       ELSE LET champ == enemies[Val(i)] IN
            IF IsNull(champ.activeUltCooldown) \/ Val(champ.activeUltCooldown) <= 0
            THEN UNCHANGED enemies
            ELSE LET effectiveCD == calculateCooldown(Val(champ.activeUltCooldown),
                                                      champ.abilityHaste)
                 IN enemies' = [enemies EXCEPT ![Val(i)].ultEndTime =
                                    Some(EndTimeAfter(now, effectiveCD))]
    /\ UNCHANGED now

startUltTimer(index) ==
    LET i == validIndex(index) IN
    /\ Called("startUltTimer", index, 0)
    /\ IF IsNull(i) THEN UNCHANGED enemies
       ELSE LET champ == enemies[Val(i)] IN
            IF IsNull(champ.activeUltCooldown) THEN UNCHANGED enemies
            ELSE LET effectiveCD == calculateCooldown(Val(champ.activeUltCooldown),
                                                      champ.abilityHaste)
                 IN enemies' = [enemies EXCEPT ![Val(i)].ultEndTime =
                                    Some(EndTimeAfter(now, effectiveCD))]
    /\ UNCHANGED now

\* startSpellTimer with the slot's abilityHaste in the place of summonerHaste.
startSpellTimerAbilityHaste(index, spellSlot) ==
    LET i == validIndex(index) IN
    /\ Called("startSpellTimer", index, spellSlot)
    /\ IF IsNull(i) THEN UNCHANGED enemies
       ELSE LET champ == enemies[Val(i)]
                baseCooldown == IF spellSlot = 1 THEN champ.spell1BaseCooldown
                                ELSE champ.spell2BaseCooldown
            IN
            IF baseCooldown <= 0 THEN UNCHANGED enemies
            ELSE LET effectiveCD == calculateCooldown(baseCooldown, champ.abilityHaste)
                     endAt == Some(EndTimeAfter(now, effectiveCD))
                 IN enemies' = [enemies EXCEPT ![Val(i)] =
                        IF spellSlot = 1 THEN [@ EXCEPT !.spell1EndTime = endAt]
                        ELSE [@ EXCEPT !.spell2EndTime = endAt]]
    /\ UNCHANGED now

startSpellTimer(index, spellSlot) ==
    LET i == validIndex(index) IN
    /\ Called("startSpellTimer", index, spellSlot)
    /\ IF IsNull(i) THEN UNCHANGED enemies
       ELSE LET champ == enemies[Val(i)]
                baseCooldown == IF spellSlot = 1 THEN champ.spell1BaseCooldown
                                ELSE champ.spell2BaseCooldown
            IN
            IF baseCooldown <= 0 THEN UNCHANGED enemies
            ELSE LET effectiveCD == calculateCooldown(baseCooldown, champ.summonerHaste)
                     endAt == Some(EndTimeAfter(now, effectiveCD))
                 IN enemies' = [enemies EXCEPT ![Val(i)] =
                        IF spellSlot = 1 THEN [@ EXCEPT !.spell1EndTime = endAt]
                        ELSE [@ EXCEPT !.spell2EndTime = endAt]]
    /\ UNCHANGED now

\* clearUltTimer that clears a timer only while it is running.
clearUltTimerIfRunning(index) ==
    LET i == validIndex(index) IN
    /\ Called("clearUltTimer", index, 0)
    /\ IF IsNull(i) THEN UNCHANGED enemies
       ELSE IF ~IsNull(enemies[Val(i)].ultEndTime)
               /\ RatGtInt(Val(enemies[Val(i)].ultEndTime), now)
            THEN enemies' = [enemies EXCEPT ![Val(i)].ultEndTime = Null]
            ELSE UNCHANGED enemies
    /\ UNCHANGED now

clearUltTimer(index) ==
    LET i == validIndex(index) IN
    /\ Called("clearUltTimer", index, 0)
    /\ IF IsNull(i) THEN UNCHANGED enemies
       ELSE enemies' = [enemies EXCEPT ![Val(i)].ultEndTime = Null]
    /\ UNCHANGED now

clearSpellTimer(index, spellSlot) ==
    LET i == validIndex(index) IN
    /\ Called("clearSpellTimer", index, spellSlot)
    /\ IF IsNull(i) THEN UNCHANGED enemies
       ELSE enemies' = [enemies EXCEPT ![Val(i)] =
                IF spellSlot = 1 THEN [@ EXCEPT !.spell1EndTime = Null]
                ELSE [@ EXCEPT !.spell2EndTime = Null]]
    /\ UNCHANGED now

resetAll ==
    /\ Called("resetAll", 0, 0)
    /\ enemies' = [k \in 0..(NumSlots - 1) |-> createEmptyChampion]
    /\ UNCHANGED now

\* Wall-clock time passes between two handlers.
AdvanceClock(d) ==
    /\ now + d <= MaxClock
    /\ now' = now + d
    /\ UNCHANGED <<storeVars, loadVars, obsVars, uiVars>>

\* ------------------------------------- the simplified store variant
\* The second store of the repository keeps no spell identity, no spell base
\* cooldown and no summoner haste in a slot; its setChampion, cycleLevel,
\* setAbilityHaste, startUltTimer, clearUltTimer and clearSpellTimer have the
\* same bodies as the ones above.

createEmptyChampionSimple ==
    [ id |-> "",
      name |-> "",
      ultBaseCooldowns |-> <<0, 0, 0>>,
      activeUltCooldown |-> Null,
      currentLevel |-> 1,
      abilityHaste |-> 0,
      ultEndTime |-> Null,
      spell1EndTime |-> Null,
      spell2EndTime |-> Null ]

\* Which store the slot collection belongs to.
Variant == IF "summonerHaste" \in DOMAIN enemies[0] THEN "full" ELSE "simple"

clearChampionSimple(index) ==
    LET i == validIndex(index) IN
    /\ Called("clearChampion", index, 0)
    /\ IF IsNull(i) THEN UNCHANGED enemies
       ELSE enemies' = [enemies EXCEPT ![Val(i)] = createEmptyChampionSimple]
    /\ UNCHANGED now

\* The base cooldown is an argument here, and nothing looks at its sign.
startSpellTimerSimple(index, spellSlot, baseCooldown) ==
    LET i == validIndex(index) IN
    /\ CalledArgs("startSpellTimer", index, spellSlot, {}, baseCooldown)
    /\ IF IsNull(i) THEN UNCHANGED enemies
       ELSE LET effectiveCD == calculateCooldown(baseCooldown,
                                                 enemies[Val(i)].abilityHaste)
                endAt == Some(EndTimeAfter(now, effectiveCD))
            IN enemies' = [enemies EXCEPT ![Val(i)] =
                   IF spellSlot = 1 THEN [@ EXCEPT !.spell1EndTime = endAt]
                   ELSE [@ EXCEPT !.spell2EndTime = endAt]]
    /\ UNCHANGED now

resetAllSimple ==
    /\ Called("resetAll", 0, 0)
    /\ enemies' = [k \in 0..(NumSlots - 1) |-> createEmptyChampionSimple]
    /\ UNCHANGED now

\* ------------------------------------------------- the haste text field
\* A text is a sequence of one-character strings.

DecimalDigits == <<"0", "1", "2", "3", "4", "5", "6", "7", "8", "9">>
IsDigit(c) == \E k \in 1..Len(DecimalDigits) : DecimalDigits[k] = c
DigitValue(c) == (CHOOSE k \in 1..Len(DecimalDigits) : DecimalDigits[k] = c) - 1

RECURSIVE SkipSpace(_)
SkipSpace(s) == IF s # <<>> /\ Head(s) = " " THEN SkipSpace(Tail(s)) ELSE s

\* The value of the longest prefix of digits; null (NaN) when there is none.
RECURSIVE ParseDigits(_, _, _)
ParseDigits(s, acc, seen) ==
    IF s # <<>> /\ IsDigit(Head(s))
    THEN ParseDigits(Tail(s), acc * 10 + DigitValue(Head(s)), TRUE)
    ELSE IF seen THEN Some(acc) ELSE Null

\* parseInt(text, 10): leading white space, an optional sign, then digits;
\* whatever follows the digits is ignored.  Null stands for NaN.
parseInt(text) ==
    LET s == SkipSpace(text)
        signed == s # <<>> /\ Head(s) \in {"+", "-"}
        m == ParseDigits(IF signed THEN Tail(s) ELSE s, 0, FALSE)
    IN IF IsNull(m) THEN Null
       ELSE IF signed /\ Head(s) = "-" THEN Some(-Val(m)) ELSE m

\* The card's text field handler; index is the card's own slot.
handleHasteChange(index, text) ==
    LET parsed == parseInt(text) IN
    setAbilityHaste(index, IF IsNull(parsed) THEN 0 ELSE Max(0, Val(parsed)))

\* A millisecond passes between two calls made one right after the other.
MaxRapidClock == 1002

TickClock ==
    /\ now < MaxRapidClock
    /\ now' = now + 1
    /\ UNCHANGED <<storeVars, loadVars, obsVars, uiVars>>

\* ------------------------------------------------------------ persistence

EmptyEnemies == [k \in 0..(NumSlots - 1) |-> createEmptyChampion]

\* The comparison written >= : an end-time equal to the clock is kept.
KeepIfNotPast(e, clock) ==
    IF ~IsNull(e) /\ Val(e)[1] # 0 /\ ~RatLeInt(Val(e), clock - 1) THEN e ELSE Null

\* champ.xEndTime && champ.xEndTime > now ? champ.xEndTime : null
\* (a stored 0 is falsy, like null).
KeepIfFuture(e, clock) ==
    IF ~IsNull(e) /\ Val(e)[1] # 0 /\ RatGtInt(Val(e), clock) THEN e ELSE Null

\* The persist middleware reads the stored record and sets it as the store's
\* state; the callback of onRehydrateStorage runs after that.
HydrateInstall ==
    /\ hydration = "pending"
    /\ stored.kind = "state"
    /\ enemies' = stored.enemies
    /\ hydration' = "installed"
    /\ UNCHANGED <<now, nops, last, stored, loadClock, obsVars, uiVars>>

\* A callback that writes back only the slots that hold a champion.
onRehydrateStorageDropsEmpty ==
    /\ hydration = "installed"
    /\ LET kept == {k \in DOMAIN stored.enemies : stored.enemies[k].id # ""}
           cleaned == [k \in kept |->
                [stored.enemies[k] EXCEPT
                    !.ultEndTime = KeepIfFuture(@, now),
                    !.spell1EndTime = KeepIfFuture(@, now),
                    !.spell2EndTime = KeepIfFuture(@, now)]]
       IN enemies' = cleaned
    /\ loadClock' = now
    /\ hydration' = "done"
    /\ UNCHANGED <<now, nops, last, stored, obsVars, uiVars>>

\* The callback returned by onRehydrateStorage, called with the installed state.
onRehydrateStorage ==
    /\ hydration = "installed"
    /\ LET cleaned == [k \in DOMAIN stored.enemies |->
                [stored.enemies[k] EXCEPT
                    !.ultEndTime = KeepIfFuture(@, now),
                    !.spell1EndTime = KeepIfFuture(@, now),
                    !.spell2EndTime = KeepIfFuture(@, now)]]
       IN enemies' = cleaned
    /\ loadClock' = now
    /\ hydration' = "done"
    /\ UNCHANGED <<now, nops, last, stored, obsVars, uiVars>>

\* A callback that, called without a state, writes a shorter collection.
onRehydrateStorageSkippedRewrites ==
    /\ hydration = "pending"
    /\ stored.kind \in {"none", "error"}
    /\ enemies' = [k \in 0..(NumSlots - 2) |-> createEmptyChampion]
    /\ hydration' = "done"
    /\ UNCHANGED <<now, nops, last, stored, loadClock, obsVars, uiVars>>

\* The callback called with an error or without a state: if (error || !state) return.
onRehydrateStorageSkipped ==
    /\ hydration = "pending"
    /\ stored.kind \in {"none", "error"}
    /\ hydration' = "done"
    /\ UNCHANGED <<enemies, now, nops, last, stored, loadClock, obsVars, uiVars>>

\* A partialize that leaves out the end-times that have passed.
partializeSanitized ==
    [enemies |-> [k \in DOMAIN enemies |->
                    [enemies[k] EXCEPT
                        !.ultEndTime = KeepIfFuture(@, now),
                        !.spell1EndTime = KeepIfFuture(@, now),
                        !.spell2EndTime = KeepIfFuture(@, now)]]]

\* partialize: (state) => ({ enemies: state.enemies })
partialize == [enemies |-> enemies]

\* The app is closed and started again: storage holds the payload the
\* middleware wrote at the last state change, the store is created anew and
\* its rehydration is pending.
Relaunch ==
    /\ hydration = "done"
    /\ stored' = [kind |-> "state", enemies |-> partialize.enemies]
    /\ enemies' = EmptyEnemies
    /\ hydration' = "pending"
    /\ UNCHANGED <<now, nops, last, loadClock, obsVars, uiVars>>

\* ------------------------------------------------- the countdown observer

\* The part of the observer's state that tick, the effect and its clean-up
\* read and write.
Observer ==
    [ remaining |-> remaining, intervalRef |-> intervalRef,
      intervals |-> intervals, subscription |-> subscription, subs |-> subs,
      tickAt |-> tickAt, zeroSeen |-> zeroSeen ]

Commit(o) ==
    /\ remaining' = o.remaining
    /\ intervalRef' = o.intervalRef
    /\ intervals' = o.intervals
    /\ subscription' = o.subscription
    /\ subs' = o.subs
    /\ tickAt' = o.tickAt
    /\ zeroSeen' = o.zeroSeen

\* Handles are never reused while one is live or referenced.
MaxHandles == 3
Ids(set) == {h.id : h \in set}
HasFresh(used) == \E n \in 1..MaxHandles : n \notin used
Fresh(used) == CHOOSE n \in 1..MaxHandles :
                  n \notin used /\ \A m \in 1..MaxHandles : m \notin used => n <= m
UsedIntervalIds(o) ==
    Ids(o.intervals) \cup (IF IsNull(o.intervalRef) THEN {} ELSE {Val(o.intervalRef)})
UsedSubIds(o) ==
    Ids(o.subs) \cup (IF IsNull(o.subscription) THEN {} ELSE {Val(o.subscription)})

\* Math.floor in the place of Math.ceil.
DiffFloor(e, clock) ==
    LET r == RatSubInt(e, clock) IN Max(0, r[1] \div (r[2] * 1000))

\* Math.abs in the place of Math.max(0, .).
DiffAbs(e, clock) ==
    LET c == CeilDiv(RatSubInt(e, clock), 1000) IN IF c < 0 THEN 0 - c ELSE c

\* Math.max(0, Math.ceil((endTime - Date.now()) / 1000))
Diff(e, clock) == Max(0, CeilDiv(RatSubInt(e, clock), 1000))

\* clearInterval(intervalRef.current); intervalRef.current = null
clearIntervalRef(o) ==
    [o EXCEPT !.intervals = {h \in @ : h.id # Val(o.intervalRef)},
              !.intervalRef = Null]

\* intervalRef.current = setInterval(tick, 500), tick closed over e
setIntervalRef(o, e) ==
    LET id == Fresh(UsedIntervalIds(o)) IN
    [o EXCEPT !.intervals = @ \cup {[id |-> id, endTime |-> e]},
              !.intervalRef = Some(id)]

\* tick that sets remaining and never stops the interval.
tickKeepsPolling(o, e) ==
    LET diff == Diff(e, now)
    IN [o EXCEPT !.remaining = diff,
                 !.tickAt = Some(<<e, now>>),
                 !.zeroSeen = @ \/ diff = 0]

\* tick, closed over the effect's endTime e
tick(o, e) ==
    LET diff == Diff(e, now)
        o1 == [o EXCEPT !.remaining = diff,
                        !.tickAt = Some(<<e, now>>),
                        !.zeroSeen = @ \/ diff = 0]
    IN IF diff = 0 /\ ~IsNull(o1.intervalRef) THEN clearIntervalRef(o1) ELSE o1

\* A clean-up that removes the listener and leaves the interval running.
cleanupKeepsInterval(o, e) ==
    IF IsNull(e) THEN o
    ELSE [o EXCEPT !.subs = {s \in @ : s.id # Val(o.subscription)},
                   !.subscription = Null,
                   !.intervalRef = Null]

\* The effect's clean-up; an effect that returned early has none.
cleanup(o, e) ==
    IF IsNull(e) THEN o
    ELSE LET o1 == IF ~IsNull(o.intervalRef) THEN clearIntervalRef(o) ELSE o
         IN [o1 EXCEPT !.subs = {s \in @ : s.id # Val(o.subscription)},
                       !.subscription = Null]

\* The effect body for the endTime e of the render.
effect(o, e) ==
    IF IsNull(e)
    THEN [o EXCEPT !.remaining = 0, !.tickAt = Null, !.zeroSeen = FALSE]
    ELSE LET o1 == tick([o EXCEPT !.zeroSeen = FALSE], Val(e))
             o2 == setIntervalRef(o1, Val(e))
             sid == Fresh(UsedSubIds(o2))
         IN [o2 EXCEPT !.subs = @ \cup {[id |-> sid, endTime |-> Val(e)]},
                       !.subscription = Some(sid)]

EffectCanRun(o, e) ==
    IsNull(e) \/ (HasFresh(UsedIntervalIds(o)) /\ HasFresh(UsedSubIds(o)))

\* The first render of the hook and its effect.
MountHook(e) ==
    /\ obs = "unmounted"
    /\ EffectCanRun(Observer, e)
    /\ obs' = "mounted"
    /\ endTime' = e
    /\ returned' = remaining
    /\ Commit(effect(Observer, e))
    /\ ev' = "mount"
    /\ UNCHANGED <<prevEnd, now, storeVars, loadVars>>

\* The first render and its effect.
Mount(e) == MountHook(e) /\ UNCHANGED uiVars

\* A render with a changed endTime: the hook returns the remaining state as it
\* is, then the previous effect is cleaned up and the effect runs again.
RerenderHook(e) ==
    /\ obs = "mounted"
    /\ e # endTime
    /\ EffectCanRun(cleanup(Observer, endTime), e)
    /\ endTime' = e
    /\ returned' = remaining
    /\ Commit(effect(cleanup(Observer, endTime), e))
    /\ ev' = "endTime"
    /\ prevEnd' = endTime
    /\ UNCHANGED <<obs, now, storeVars, loadVars>>

Rerender(e) == RerenderHook(e) /\ UNCHANGED uiVars

\* A render caused by setRemaining with a new value; the dependencies are the same.
RenderHook ==
    /\ obs = "mounted"
    /\ returned # remaining
    /\ returned' = remaining
    /\ ev' = "render"
    /\ UNCHANGED <<obs, endTime, remaining, intervalRef, intervals, subscription,
                   subs, prevEnd, tickAt, zeroSeen, now, storeVars, loadVars>>

Render == RenderHook /\ UNCHANGED uiVars

\* A live interval fires.
IntervalFire(h) ==
    /\ h \in intervals
    /\ Commit(tick(Observer, h.endTime))
    /\ ev' = "tick"
    /\ UNCHANGED <<obs, endTime, returned, prevEnd, now, storeVars, loadVars, uiVars>>

\* handleAppState that arms an interval without looking at intervalRef.current.
handleAppStateAlwaysArms(s, nextState) ==
    /\ s \in subs
    /\ IF nextState = "active"
       THEN LET o1 == tick(Observer, s.endTime)
                restart == RatGtInt(s.endTime, now)
            IN /\ restart => HasFresh(UsedIntervalIds(o1))
               /\ Commit(IF restart THEN setIntervalRef(o1, s.endTime) ELSE o1)
               /\ ev' = IF restart THEN "active: interval restarted" ELSE "active"
       ELSE Commit(Observer) /\ ev' = nextState
    /\ UNCHANGED <<obs, endTime, returned, prevEnd, now, storeVars, loadVars, uiVars>>

\* A live AppState listener is called with the next state.  One clock reading
\* serves the handler: no time passes inside it.
handleAppState(s, nextState) ==
    /\ s \in subs
    /\ IF nextState = "active"
       THEN LET o1 == tick(Observer, s.endTime)
                restart == RatGtInt(s.endTime, now) /\ IsNull(o1.intervalRef)
            IN /\ restart => HasFresh(UsedIntervalIds(o1))
               /\ Commit(IF restart THEN setIntervalRef(o1, s.endTime) ELSE o1)
               /\ ev' = IF restart THEN "active: interval restarted" ELSE "active"
       ELSE Commit(Observer) /\ ev' = nextState
    /\ UNCHANGED <<obs, endTime, returned, prevEnd, now, storeVars, loadVars, uiVars>>

\* The component is torn down: the mounted effect's clean-up runs.
Unmount ==
    /\ obs = "mounted"
    /\ obs' = "gone"
    /\ Commit(cleanup(Observer, endTime))
    /\ ev' = "unmount"
    /\ UNCHANGED <<endTime, returned, prevEnd, now, storeVars, loadVars, uiVars>>

\* The observer's clock: time passes, and the wall clock may be set back.
MaxObsClock == 13000
MinObsClock == 10500

AdvanceObsClock(d) ==
    /\ now + d <= MaxObsClock
    /\ now' = now + d
    /\ UNCHANGED <<storeVars, loadVars, obsVars, uiVars>>

SetBackClock(d) ==
    /\ now - d >= MinObsClock
    /\ now' = now - d
    /\ UNCHANGED <<storeVars, loadVars, obsVars, uiVars>>

\* The clock of a countdown that runs for 40 seconds: it only moves forward.
MaxLiveClock == 53000

AdvanceLiveClock(d) ==
    /\ now + d <= MaxLiveClock
    /\ now' = now + d
    /\ UNCHANGED <<storeVars, loadVars, obsVars, uiVars>>

\* ----------------------------------------------------------------- inputs

Indices == {2, 5}
SpellSlots == {1, 2}
HasteInputs == {0, 100}
ClockSteps == {40000}

Lux == [id |-> "Lux", name |-> "Lux",
        spells |-> <<<<10, 9, 8, 7, 6>>, <<11, 10, 9>>, <<10>>, <<80, 60, 40>>>>]
\* A detail record with no fourth spell.
Stub == [id |-> "Stub", name |-> "Stub", spells |-> <<<<8>>, <<9>>>>]
Details == {Lux, Stub}

\* Partial<EnemyChampion> values handed to setChampion.
Patches ==
    { [activeUltCooldown |-> Some(999)],
      [currentLevel |-> 11],
      [ionianBoots |-> TRUE] }

\* The patches above and one that puts a slot back at level 1.
PatchesWide == Patches \cup { [currentLevel |-> 1] }

SpellChoices == { <<"SummonerIgnite", 180>>, <<"SummonerNone", 0>> }

\* End-times a stored slot may hold: none, 0, past, the clock at start-up,
\* later ones, and one that is not a whole number of milliseconds.
StoredEndTimes ==
    { Null, Some(<<0, 1>>), Some(<<500, 1>>), Some(<<1000, 1>>),
      Some(<<41000, 1>>), Some(<<3000000, 13>>) }

\* A slot as a session leaves it in storage.
StoredSlot(u, s1, s2) ==
    [ createEmptyChampion EXCEPT
        !.id = "Lux", !.name = "Lux",
        !.ultBaseCooldowns = <<80, 60, 40>>,
        !.currentLevel = 11,
        !.activeUltCooldown = Some(60),
        !.abilityHaste = 100,
        !.ionianBoots = TRUE,
        !.summonerHaste = 12,
        !.spell1Id = "SummonerIgnite",
        !.spell1BaseCooldown = 180,
        !.ultEndTime = u, !.spell1EndTime = s1, !.spell2EndTime = s2 ]

StoredStates ==
    { [kind |-> "state",
       enemies |-> [EmptyEnemies EXCEPT ![2] = StoredSlot(u, s1, s2),
                                        ![4].spell2EndTime = s1]] :
         u \in StoredEndTimes, s1 \in StoredEndTimes, s2 \in StoredEndTimes }

\* Nothing under the key, or a read that failed: there is no stored state.
NothingStored == { [kind |-> k, enemies |-> <<>>] : k \in {"none", "error"} }

\* The endTime values the observer is rendered with.
\* 1000 is ten seconds before the observer's first clock reading.
ObsEndTimes == { Null, Some(<<1000, 1>>), Some(<<11500, 1>>), Some(<<24001, 2>>) }
ObsClockSteps == {500}
AppStates == {"active", "background"}

\* A detail record whose fourth spell has more than three ranks.
Udyr == [id |-> "Udyr", name |-> "Udyr",
         spells |-> <<<<6>>, <<6>>, <<6>>, <<120, 100, 80, 60>>>>]
DetailsWide == Details \cup {Udyr}

\* What the simplified store's card hands to setChampion and startSpellTimer.
PatchesSimple ==
    { [id |-> "Lux", name |-> "Lux",
       ultBaseCooldowns |-> <<80, 60, 40>>, currentLevel |-> 6],
      [currentLevel |-> 11] }
BaseCooldownInputs == {300, 0, -5}

\* Texts typed into the haste field, and numbers handed to the store directly.
HasteTexts ==
    { <<>>, <<"a", "b">>, <<"-", "5">>, <<"4", "2">>, <<"1", "2", "p", "x">>,
      <<" ", "7">>, <<"3", ".", "7">> }
CardIndices == {0, 4}
StoreHasteInputs == {-50, 0, 100}

\* What a session may find in storage at start-up.
SessionStored ==
    { [kind |-> "state",
       enemies |-> [EmptyEnemies EXCEPT
                       ![2] = StoredSlot(Some(<<500, 1>>), Some(<<41000, 1>>), Null)]] }
    \cup NothingStored

\* Indices on both sides of the valid range, and two valid ones.
IndicesWide == {-1, 2, 4, 5}

\* Storage that holds two champions, each with timers.
IndexStored ==
    [kind |-> "state",
     enemies |-> [EmptyEnemies EXCEPT
                     ![2] = StoredSlot(Some(<<41000, 1>>), Some(<<41000, 1>>), Null),
                     ![4] = StoredSlot(Null, Some(<<3000000, 13>>), Some(<<41000, 1>>))]]

\* Storage that holds a slot at each of the four levels: slot 0 empty at
\* level 1, Lux at level 6 in slot 1, at level 11 in slot 2, at 16 in slot 4.
CycleStored ==
    [kind |-> "state",
     enemies |-> [EmptyEnemies EXCEPT
        ![1] = [StoredSlot(Null, Null, Null) EXCEPT
                   !.currentLevel = 6, !.activeUltCooldown = Some(80)],
        ![2] = StoredSlot(Some(<<41000, 1>>), Null, Null),
        ![4] = [StoredSlot(Null, Null, Null) EXCEPT
                   !.currentLevel = 16, !.activeUltCooldown = Some(40)]]]
CycleIndices == {0, 1, 2, 4}

\* A timer of 40 s started at the observer's first clock reading, 11000, and
\* clock steps that reach its end-time, 51000, and the second after it.
LiveEndTimes == { Null, Some(<<51000, 1>>) }
LiveClockSteps == {20000, 21000}

\* ------------------------------------------- the champion search modal
\* One ChampionSearchModal, the one the card of slot ModalIndex renders.
ModalIndex == 2
MaxFetches == 3

\* The cells of the grid: a champion the detail responses hold and one they do not.
Champions == {"Lux", "Nobody"}

\* json.data of the champion-detail responses.
ChampionData == [c \in {"Lux"} |-> Lux]

\* The outcomes of fetchChampionDetails(championId): it throws when the
\* response is not ok or holds no entry for the champion, else returns the entry.
fetchChampionDetails(championId) ==
    { [ok |-> FALSE, detail |-> <<>>] } \cup
    IF championId \in DOMAIN ChampionData
    THEN { [ok |-> TRUE, detail |-> ChampionData[championId]] }
    ELSE {}

Settled(f, state) == (fetches \ {f}) \cup { [f EXCEPT !.state = state] }

\* handleSelect up to its await: if (selecting) return; setSelecting(champ.id).
\* The selecting it tests is the one of the render that made the callback, and
\* the cell is disabled by the same render.
handleSelect(champ) ==
    /\ IsNull(rendered)
    /\ Cardinality(fetches) < MaxFetches
    /\ selecting' = Some(champ)
    /\ fetches' = fetches \cup { [id |-> Cardinality(fetches) + 1, champ |-> champ,
                                  index |-> ModalIndex, state |-> "pending"] }
    /\ uiEv' = "select"
    /\ UNCHANGED <<now, storeVars, loadVars, obsVars, rendered, soundVars, result, extVars>>

\* The modal renders again after a setSelecting.
RenderModal ==
    /\ rendered # selecting
    /\ rendered' = selecting
    /\ uiEv' = "render"
    /\ UNCHANGED <<now, storeVars, loadVars, obsVars, selecting, fetches,
                   soundVars, result, extVars>>

\* handleSelect after the await resolved: setChampionData(index, detail);
\* onClose(); finally setSelecting(null).
FetchResolve(f) ==
    /\ f.state = "pending"
    /\ \E r \in fetchChampionDetails(f.champ) :
          /\ r.ok
          /\ setChampionData(f.index, r.detail)
    /\ selecting' = Null
    /\ fetches' = Settled(f, "resolved")
    /\ uiEv' = "resolved"
    /\ UNCHANGED <<rendered, soundVars, result, extVars>>

\* handleSelect whose catch does not reach the finally block.
FetchRejectKeepsMarker(f) ==
    /\ f.state = "pending"
    /\ \E r \in fetchChampionDetails(f.champ) : ~r.ok
    /\ fetches' = Settled(f, "rejected")
    /\ uiEv' = "rejected"
    /\ UNCHANGED <<now, storeVars, loadVars, obsVars, selecting, rendered,
                   soundVars, result, extVars>>

\* handleSelect after the await rejected: catch (console.warn); finally
\* setSelecting(null).
FetchReject(f) ==
    /\ f.state = "pending"
    /\ \E r \in fetchChampionDetails(f.champ) : ~r.ok
    /\ selecting' = Null
    /\ fetches' = Settled(f, "rejected")
    /\ uiEv' = "rejected"
    /\ UNCHANGED <<now, storeVars, loadVars, obsVars, rendered, soundVars, result, extVars>>

\* ------------------------------------------------ the ping sound module
MaxLoads == 3

Began(by) ==
    loading \cup { [id |-> Cardinality(loading) + 1, by |-> by, state |-> "awaiting"] }

Ended(l, state) == (loading \ {l}) \cup { [l EXCEPT !.state = state] }

\* loadPingSound up to its await: if (loaded) return; else createAsync begins.
loadPingSound ==
    /\ Cardinality(loading) < MaxLoads
    /\ IF loaded
       THEN /\ uiEv' = "load: already loaded"
            /\ UNCHANGED loading
       ELSE /\ uiEv' = "load: awaiting"
            /\ loading' = Began("loadPingSound")
    /\ UNCHANGED <<now, storeVars, loadVars, obsVars, selectVars,
                   sound, loaded, created, result, extVars>>

\* playPing up to its first await: if (!loaded) await loadPingSound();
\* if (!sound) return; setPositionAsync(0); playAsync().
playPing ==
    /\ Cardinality(loading) < MaxLoads
    /\ IF ~loaded
       THEN /\ uiEv' = "play: awaiting load"
            /\ loading' = Began("playPing")
       ELSE /\ uiEv' = IF IsNull(sound) THEN "play: no sound" ELSE "play: played"
            /\ UNCHANGED loading
    /\ UNCHANGED <<now, storeVars, loadVars, obsVars, selectVars,
                   sound, loaded, created, result, extVars>>

\* createAsync resolves with a new sound object: sound = s; loaded = true.
\* A playPing that awaited the load goes on and plays the module's sound.
CreateResolve(l) ==
    /\ l.state = "awaiting"
    /\ created' = created + 1
    /\ sound' = Some(created + 1)
    /\ loaded' = TRUE
    /\ loading' = Ended(l, "resolved")
    /\ uiEv' = IF l.by = "playPing" THEN "play: played" ELSE "load: loaded"
    /\ UNCHANGED <<now, storeVars, loadVars, obsVars, selectVars, result, extVars>>

\* createAsync rejects: catch { loaded = true }. A playPing that awaited the
\* load goes on with whatever the module's sound is.
CreateReject(l) ==
    /\ l.state = "awaiting"
    /\ loaded' = TRUE
    /\ loading' = Ended(l, "rejected")
    /\ uiEv' = IF l.by = "loadPingSound" THEN "load: failed"
               ELSE IF IsNull(sound) THEN "play: no sound" ELSE "play: played"
    /\ UNCHANGED <<now, storeVars, loadVars, obsVars, selectVars,
                   sound, created, result, extVars>>

\* --------------------------------------------- calls of calculateCooldown
MaxHaste == 30

\* Base cooldowns in seconds: none, the shortest, ultimates and spells, and a
\* negative one; haste from 0 up, and a negative one.
BaseInputs == {-5, 0, 1, 40, 80, 180, 300}
HasteCalls == (0..MaxHaste) \cup {-50}

\* A call calculateCooldown(base, haste) and what it returned.
CallCalculateCooldown(base, haste) ==
    /\ result' = Some([base |-> base, haste |-> haste,
                       value |-> calculateCooldown(base, haste)])
    /\ uiEv' = "calculateCooldown"
    /\ UNCHANGED <<now, storeVars, loadVars, obsVars, selectVars, soundVars, extVars>>

\* ------------------------------------------- a timer circle of a card
\* The card of slot i renders a TimerCircle with endTime = enemies[i][f], and
\* the circle calls useCountdown(endTime): the observer's endTime argument is
\* the store's field as the render finds it.
\* After a render in which remaining or endTime changed the circle's expiry
\* effect runs with the values of that render.
circleFrame == <<selectVars, soundVars, uiEv, result, heapVars, listVars>>

\* An expiry effect without the test of endTime.
expiryEffectAnyEndTime ==
    /\ notified' = IF prevRemainingRef > 0 /\ returned' = 0
                   THEN Append(notified, tickAt) ELSE notified
    /\ prevRemainingRef' = returned'

\* if (prevRemainingRef.current > 0 && remaining === 0 && endTime !== null)
\*   { Haptics.notificationAsync(...); playPing(); }
\* prevRemainingRef.current = remaining
expiryEffect ==
    /\ notified' = IF prevRemainingRef > 0 /\ returned' = 0 /\ ~IsNull(endTime')
                   THEN Append(notified, tickAt) ELSE notified
    /\ prevRemainingRef' = returned'

\* notified keeps, for each notification, the tick that set the remaining the
\* render returned (none when the effect of a null endTime set it).
\* The first render: prevRemainingRef = useRef(remaining), and the effect
\* finds the ref equal to remaining.
CircleMount(i, f) ==
    /\ MountHook(enemies[i][f])
    /\ prevRemainingRef' = returned'
    /\ UNCHANGED <<notified, circleFrame>>

CircleRerender(i, f) ==
    /\ RerenderHook(enemies[i][f])
    /\ expiryEffect
    /\ UNCHANGED circleFrame

CircleRender ==
    /\ RenderHook
    /\ expiryEffect
    /\ UNCHANGED circleFrame

\* ------------------------------------- the objects behind the state
\* An object is an array of slot-record ids or a slot record; ids are given
\* in the order of allocation and an object, once allocated, stays.
ArrayObject(items) == [kind |-> "array", items |-> items, fields |-> <<>>]
SlotObject(fields) == [kind |-> "slot", items |-> <<>>, fields |-> fields]

\* The collection a reader gets by following the array r.
Deref(r) == [k \in DOMAIN objs[r].items |-> objs[objs[r].items[k]].fields]

\* Array.from({ length: 5 }, createEmptyChampion): five records and their array.
FreshCollection(base) ==
    [n \in 1..(NumSlots + 1) |->
        IF n <= NumSlots THEN SlotObject(createEmptyChampion)
        ELSE ArrayObject([k \in 0..(NumSlots - 1) |-> base + k + 1])]

InitHeap ==
    /\ objs = FreshCollection(0)
    /\ root = NumSlots + 1
    /\ snap = Null

\* The call reaches its set(...): the index is valid and the call did not
\* return before it (no ultimate at level 1, no spell duration).
ReachesSet(op, index, slot) ==
    LET i == validIndex(index) IN
    /\ ~IsNull(i)
    /\ op = "startUltTimer" => ~IsNull(enemies[Val(i)].activeUltCooldown)
    /\ op = "startSpellTimer" =>
          (IF slot = 1 THEN enemies[Val(i)].spell1BaseCooldown
           ELSE enemies[Val(i)].spell2BaseCooldown) > 0

\* A set that writes the new record over the one the slot refers to.
PublishInPlace(i) ==
    /\ objs' = [objs EXCEPT ![objs[root].items[i]] = SlotObject(enemies'[i])]
    /\ root' = root

\* const enemies = [...state.enemies]; enemies[i] = { ... }; return { enemies }:
\* a new record for slot i, a new array that refers to it and to the other
\* slots' records, and the state refers to the new array.
Publish(i) ==
    LET slotId == Len(objs) + 1
        arrayId == Len(objs) + 2
    IN /\ objs' = objs \o << SlotObject(enemies'[i]),
                             ArrayObject([objs[root].items EXCEPT ![i] = slotId]) >>
       /\ root' = arrayId

\* set({ enemies: Array.from({ length: 5 }, createEmptyChampion) })
PublishAll ==
    /\ objs' = objs \o FreshCollection(Len(objs))
    /\ root' = Len(objs) + NumSlots + 1

\* What the call just made does to the objects.
SetState ==
    IF last'.op = "resetAll" THEN PublishAll
    ELSE IF ReachesSet(last'.op, last'.index, last'.slot)
         THEN Publish(Val(validIndex(last'.index)))
         ELSE UNCHANGED <<objs, root>>

\* A reader takes state.enemies: it holds the array, the records the array
\* refers to, and here a copy of what it read, for comparison later.
Capture ==
    /\ snap # Some([root |-> root, copy |-> enemies])
    /\ snap' = Some([root |-> root, copy |-> enemies])
    /\ uiEv' = "capture"
    /\ UNCHANGED <<now, storeVars, loadVars, obsVars, selectVars, soundVars,
                   result, objs, root, listVars, circleVars>>

\* ------------------------------------------- the handlers of a card
\* What a handler leaves alone besides uiEv, which names the handler's outcome.
cardFrame == <<selectVars, soundVars, result, extVars>>

\* A handler that returned before any store call.
Returned(name) ==
    /\ uiEv' = name \o ": returned"
    /\ UNCHANGED <<now, storeVars, loadVars, obsVars, cardFrame>>

\* The simplified card's spell duration.
DEFAULT_SPELL_CD == 300

RunningNow(e) == ~IsNull(e) /\ RatGtInt(Val(e), now)

\* handleUltPress without the test of the running timer.
handleUltPressUnguarded(index) ==
    IF IsNull(enemies[index].activeUltCooldown)
    THEN Returned("handleUltPress")
    ELSE /\ startUltTimer(index)
         /\ uiEv' = "handleUltPress: started"
         /\ UNCHANGED cardFrame

\* if (champ.activeUltCooldown === null) return;
\* if (champ.ultEndTime !== null && champ.ultEndTime > Date.now()) return;
\* state.startUltTimer(index)
handleUltPress(index) ==
    IF IsNull(enemies[index].activeUltCooldown) \/ RunningNow(enemies[index].ultEndTime)
    THEN Returned("handleUltPress")
    ELSE /\ startUltTimer(index)
         /\ uiEv' = "handleUltPress: started"
         /\ UNCHANGED cardFrame

\* if (champ.ultEndTime !== null && champ.ultEndTime > Date.now()) state.clearUltTimer(index)
handleUltLongPress(index) ==
    IF RunningNow(enemies[index].ultEndTime)
    THEN /\ clearUltTimer(index)
         /\ uiEv' = "handleUltLongPress: cleared"
         /\ UNCHANGED cardFrame
    ELSE Returned("handleUltLongPress")

\* handleSpell1Press / handleSpell2Press: return while the timer runs, else
\* startSpellTimer(index, slot), with DEFAULT_SPELL_CD in the simplified card.
handleSpellPress(index, spellSlot) ==
    IF RunningNow(enemies[index][IF spellSlot = 1 THEN "spell1EndTime" ELSE "spell2EndTime"])
    THEN Returned("handleSpellPress")
    ELSE /\ IF Variant = "full" THEN startSpellTimer(index, spellSlot)
            ELSE startSpellTimerSimple(index, spellSlot, DEFAULT_SPELL_CD)
         /\ uiEv' = "handleSpellPress: started"
         /\ UNCHANGED cardFrame

\* handleSpell1LongPress / handleSpell2LongPress: clear the running timer;
\* on an idle one the full card opens the spell picker, the simplified card
\* does nothing.
handleSpellLongPress(index, spellSlot) ==
    IF RunningNow(enemies[index][IF spellSlot = 1 THEN "spell1EndTime" ELSE "spell2EndTime"])
    THEN /\ clearSpellTimer(index, spellSlot)
         /\ uiEv' = "handleSpellLongPress: cleared"
         /\ UNCHANGED cardFrame
    ELSE /\ uiEv' = IF Variant = "full" THEN "handleSpellLongPress: picker opened"
                    ELSE "handleSpellLongPress: returned"
         /\ UNCHANGED <<now, storeVars, loadVars, obsVars, cardFrame>>

\* The other handlers of the card, the spell picker's and the modal's store
\* calls, and the screen's reset button.
CardCall(call, name) ==
    /\ call
    /\ uiEv' = name
    /\ UNCHANGED cardFrame

\* ------------------------------------------- the champion list fetch
MaxListFetches == 3

\* The list a successful fetchChampionData gives, sorted by name.
ChampionList == <<"Lux", "Nobody">>

listFrame == <<now, storeVars, loadVars, obsVars, selectVars, soundVars,
               result, heapVars, circleVars>>

\* The card of slot i shows its modal: visible becomes true and the effect
\* runs.  With a cache it takes the cached list; without one it calls
\* fetchChampionData, whatever fetches are already under way.  An open modal
\* covers the cards, so one modal is visible at a time.
OpenModal(i) ==
    /\ \A k \in DOMAIN visible : ~visible[k]
    /\ Cardinality(listFetches) < MaxListFetches
    /\ visible' = [visible EXCEPT ![i] = TRUE]
    /\ IF ~IsNull(champListCache)
       THEN /\ uiEv' = "modal: cached list"
            /\ UNCHANGED listFetches
       ELSE /\ uiEv' = "modal: list fetch"
            /\ listFetches' = listFetches \cup
                  { [id |-> Cardinality(listFetches) + 1, by |-> i,
                     cancelled |-> FALSE, state |-> "pending"] }
    /\ UNCHANGED <<champListCache, listFrame>>

\* The modal is hidden: the clean-up of the effect that fetched sets its
\* cancelled flag, and the effect of the new render returns at !visible.
CloseModal(i) ==
    /\ visible[i]
    /\ visible' = [visible EXCEPT ![i] = FALSE]
    /\ listFetches' = { IF f.by = i THEN [f EXCEPT !.cancelled = TRUE] ELSE f :
                        f \in listFetches }
    /\ uiEv' = "modal: closed"
    /\ UNCHANGED <<champListCache, listFrame>>

\* fetchChampionData resolved: if (cancelled) return; champListCache = sorted.
ListResolve(f) ==
    /\ f.state = "pending"
    /\ listFetches' = (listFetches \ {f}) \cup { [f EXCEPT !.state = "resolved"] }
    /\ champListCache' = IF f.cancelled THEN champListCache ELSE Some(ChampionList)
    /\ uiEv' = IF f.cancelled THEN "list: dropped" ELSE "list: cached"
    /\ UNCHANGED <<visible, listFrame>>

\* fetchChampionData rejected: a warning unless cancelled; the cache stays null.
ListReject(f) ==
    /\ f.state = "pending"
    /\ listFetches' = (listFetches \ {f}) \cup { [f EXCEPT !.state = "rejected"] }
    /\ uiEv' = "list: failed"
    /\ UNCHANGED <<visible, champListCache, listFrame>>

\* The R circle's props as the card of slot i computes them, and the
\* circle's progress for the remaining value the hook returned:
\* totalDuration = effectiveUltCD ?? 0; isActive = endTime !== null &&
\* remaining > 0; progress = isActive && totalDuration > 0 ?
\* remaining / totalDuration : 0.  A rational <<n, d>>.
effectiveUltCD(i) ==
    IF IsNull(enemies[i].activeUltCooldown) THEN Null
    ELSE Some(calculateCooldown(Val(enemies[i].activeUltCooldown),
                                enemies[i].abilityHaste))

totalDuration(i) == IF IsNull(effectiveUltCD(i)) THEN <<0, 1>> ELSE Val(effectiveUltCD(i))

isActive == ~IsNull(endTime) /\ returned > 0

progress(i) ==
    IF isActive /\ totalDuration(i)[1] > 0
    THEN Rat(returned * totalDuration(i)[2], totalDuration(i)[1])
    ELSE <<0, 1>>

\* ---------------------------------------------------------- specification

InitStore ==
    /\ enemies = EmptyEnemies
    /\ nops = 0
    /\ last = NoCall

InitLoaded ==
    /\ stored = [kind |-> "none", enemies |-> <<>>]
    /\ hydration = "done"
    /\ loadClock = 0

\* The modal has no selection in progress and the sound module is as imported.
\* The objects behind the state are left out where no reader holds one.
InitNoHeap ==
    /\ objs = <<>>
    /\ root = 0
    /\ snap = Null

\* No modal is open and no list was fetched.
InitList ==
    /\ visible = [k \in 0..(NumSlots - 1) |-> FALSE]
    /\ champListCache = Null
    /\ listFetches = {}

InitCircle ==
    /\ prevRemainingRef = 0
    /\ notified = <<>>

InitModalSound ==
    /\ selecting = Null
    /\ rendered = Null
    /\ fetches = {}
    /\ sound = Null
    /\ loaded = FALSE
    /\ loading = {}
    /\ created = 0
    /\ uiEv = "none"
    /\ result = Null

InitUi == InitModalSound /\ InitNoHeap /\ InitList /\ InitCircle

InitObserver ==
    /\ obs = "unmounted"
    /\ endTime = Null
    /\ remaining = 0
    /\ returned = 0
    /\ intervalRef = Null
    /\ intervals = {}
    /\ subscription = Null
    /\ subs = {}
    /\ ev = "none"
    /\ prevEnd = Null
    /\ tickAt = Null
    /\ zeroSeen = FALSE

\* The store in a session: its mutations and the passing of time.
Init == InitStore /\ InitLoaded /\ InitObserver /\ InitUi /\ now = 1000

NextStore ==
    \/ \E i \in Indices, p \in Patches : setChampion(i, p)
    \/ \E i \in Indices, d \in Details : setChampionData(i, d)
    \/ \E i \in Indices : clearChampion(i)
    \/ \E i \in Indices : cycleLevel(i)
    \/ \E i \in Indices, h \in HasteInputs : setAbilityHaste(i, h)
    \/ \E i \in Indices : toggleIonianBoots(i)
    \/ \E i \in Indices : toggleCosmicInsight(i)
    \/ \E i \in Indices, s \in SpellSlots, c \in SpellChoices :
            setSummonerSpell(i, s, c[1], c[2])
    \/ \E i \in Indices : startUltTimer(i)
    \/ \E i \in Indices, s \in SpellSlots : startSpellTimer(i, s)
    \/ \E i \in Indices : clearUltTimer(i)
    \/ \E i \in Indices, s \in SpellSlots : clearSpellTimer(i, s)
    \/ resetAll

Next ==
    \/ NextStore /\ UNCHANGED uiVars
    \/ \E d \in ClockSteps : AdvanceClock(d)

Spec == Init /\ [][Next]_vars

\* Start-up: the store is created empty and the persist middleware rehydrates it.
InitLoad ==
    /\ InitStore
    /\ InitObserver
    /\ InitUi
    /\ stored \in StoredStates \cup NothingStored
    /\ hydration = "pending"
    /\ loadClock = 0
    /\ now = 1000

NextLoad ==
    \/ HydrateInstall
    \/ onRehydrateStorage
    \/ onRehydrateStorageSkipped
    \/ \E d \in ClockSteps : AdvanceClock(d)

SpecLoad == InitLoad /\ [][NextLoad]_vars

\* One countdown observer, rendered with changing endTime values.
InitObs == InitStore /\ InitLoaded /\ InitObserver /\ InitUi /\ now = 11000

NextObs ==
    \/ \E e \in ObsEndTimes : Mount(e)
    \/ \E e \in ObsEndTimes : Rerender(e)
    \/ Render
    \/ \E h \in intervals : IntervalFire(h)
    \/ \E s \in subs, a \in AppStates : handleAppState(s, a)
    \/ Unmount
    \/ \E d \in ObsClockSteps : AdvanceObsClock(d)
    \/ \E d \in ObsClockSteps : SetBackClock(d)

SpecObs == InitObs /\ [][NextObs]_vars

\* Both store variants, each from its empty collection, with the wider inputs.
MaxVariantOps == 3

EmptyEnemiesSimple == [k \in 0..(NumSlots - 1) |-> createEmptyChampionSimple]

InitVariants ==
    /\ enemies \in {EmptyEnemies, EmptyEnemiesSimple}
    /\ nops = 0
    /\ last = NoCall
    /\ InitLoaded /\ InitObserver /\ InitUi /\ now = 1000

NextFull ==
    \/ \E i \in Indices, p \in PatchesWide : setChampion(i, p)
    \/ \E i \in Indices, d \in DetailsWide : setChampionData(i, d)
    \/ \E i \in Indices : clearChampion(i)
    \/ \E i \in Indices : cycleLevel(i)
    \/ \E i \in Indices, h \in HasteInputs : setAbilityHaste(i, h)
    \/ \E i \in Indices : toggleIonianBoots(i)
    \/ \E i \in Indices : toggleCosmicInsight(i)
    \/ \E i \in Indices, s \in SpellSlots, c \in SpellChoices :
            setSummonerSpell(i, s, c[1], c[2])
    \/ \E i \in Indices : startUltTimer(i)
    \/ \E i \in Indices, s \in SpellSlots : startSpellTimer(i, s)
    \/ \E i \in Indices : clearUltTimer(i)
    \/ \E i \in Indices, s \in SpellSlots : clearSpellTimer(i, s)
    \/ resetAll

NextSimple ==
    \/ \E i \in Indices, p \in PatchesSimple : setChampion(i, p)
    \/ \E i \in Indices : clearChampionSimple(i)
    \/ \E i \in Indices : cycleLevel(i)
    \/ \E i \in Indices, h \in HasteInputs : setAbilityHaste(i, h)
    \/ \E i \in Indices : startUltTimer(i)
    \/ \E i \in Indices, s \in SpellSlots, b \in BaseCooldownInputs :
            startSpellTimerSimple(i, s, b)
    \/ \E i \in Indices : clearUltTimer(i)
    \/ \E i \in Indices, s \in SpellSlots : clearSpellTimer(i, s)
    \/ resetAllSimple

NextVariants ==
    \/ nops < MaxVariantOps /\ Variant = "full" /\ NextFull /\ UNCHANGED uiVars
    \/ nops < MaxVariantOps /\ Variant = "simple" /\ NextSimple /\ UNCHANGED uiVars
    \/ \E d \in ClockSteps : AdvanceClock(d)

SpecVariants == InitVariants /\ [][NextVariants]_vars

\* The haste field of two cards, and the store's operation called directly.
MaxHasteOps == 3

NextHasteCalls ==
    \/ \E i \in CardIndices, t \in HasteTexts : handleHasteChange(i, t)
    \/ \E i \in Indices, h \in StoreHasteInputs : setAbilityHaste(i, h)
    \/ \E i \in Indices : startUltTimer(i)
    \/ \E i \in Indices, d \in Details : setChampionData(i, d)

NextHaste == nops < MaxHasteOps /\ NextHasteCalls /\ UNCHANGED uiVars

SpecHaste == Init /\ [][NextHaste]_vars

\* A session: start-up with its rehydration, and the store's mutations.  The
\* middleware calls the callback in the same turn as it installs the stored
\* state, so no mutation comes between the two.
MaxSessionOps == 2

InitSession ==
    /\ InitStore
    /\ InitObserver
    /\ InitUi
    /\ stored \in SessionStored
    /\ hydration = "pending"
    /\ loadClock = 0
    /\ now = 1000

NextSession ==
    \/ NextLoad
    \/ hydration # "installed" /\ nops < MaxSessionOps /\ NextFull /\ UNCHANGED uiVars

SpecSession == InitSession /\ [][NextSession]_vars

\* Every index-addressed mutation, on slots that a load has filled, with
\* indices inside and outside the range.
MaxIndexOps == 2

InitIndex ==
    /\ InitStore
    /\ InitObserver
    /\ InitUi
    /\ stored = IndexStored
    /\ hydration = "pending"
    /\ loadClock = 0
    /\ now = 1000

NextIndexCalls ==
    \/ \E i \in IndicesWide : setChampion(i, [currentLevel |-> 11])
    \/ \E i \in IndicesWide : setChampionData(i, Lux)
    \/ \E i \in IndicesWide : clearChampion(i)
    \/ \E i \in IndicesWide : cycleLevel(i)
    \/ \E i \in IndicesWide : setAbilityHaste(i, 100)
    \/ \E i \in IndicesWide : toggleIonianBoots(i)
    \/ \E i \in IndicesWide : toggleCosmicInsight(i)
    \/ \E i \in IndicesWide, s \in SpellSlots : setSummonerSpell(i, s, "SummonerIgnite", 180)
    \/ \E i \in IndicesWide : startUltTimer(i)
    \/ \E i \in IndicesWide, s \in SpellSlots : startSpellTimer(i, s)
    \/ \E i \in IndicesWide : clearUltTimer(i)
    \/ \E i \in IndicesWide, s \in SpellSlots : clearSpellTimer(i, s)

NextIndex ==
    \/ HydrateInstall
    \/ onRehydrateStorage
    \/ hydration = "done" /\ nops < MaxIndexOps /\ NextIndexCalls /\ UNCHANGED uiVars
    \/ \E d \in ClockSteps : AdvanceClock(d)

SpecIndex == InitIndex /\ [][NextIndex]_vars

\* Runs of cycleLevel calls on slots that a load left at each level.
InitCycle ==
    /\ InitStore
    /\ InitObserver
    /\ InitUi
    /\ stored = CycleStored
    /\ hydration = "pending"
    /\ loadClock = 0
    /\ now = 1000

NextCycleCalls ==
    \/ \E i \in CycleIndices : cycleLevel(i)
    \/ \E i \in CycleIndices : startUltTimer(i)

NextCycle ==
    \/ HydrateInstall
    \/ onRehydrateStorage
    \/ hydration = "done" /\ NextCycleCalls /\ UNCHANGED uiVars
    \/ \E d \in ClockSteps : AdvanceClock(d)

SpecCycle == InitCycle /\ [][NextCycle]_vars

\* Starts called one right after the other, a millisecond or less apart.
NextRapidCalls ==
    \/ \E i \in Indices, d \in Details : setChampionData(i, d)
    \/ \E i \in Indices : startUltTimer(i)
    \/ \E i \in Indices, s \in SpellSlots : startSpellTimer(i, s)
    \/ \E i \in Indices : clearUltTimer(i)

NextRapid ==
    \/ NextRapidCalls /\ UNCHANGED uiVars
    \/ TickClock

SpecRapid == Init /\ [][NextRapid]_vars

\* One countdown observer under a clock that advances: setInterval calls tick
\* again and again while the handle is live, and time does not stand still.
NextLive ==
    \/ \E e \in LiveEndTimes : Mount(e)
    \/ \E e \in LiveEndTimes : Rerender(e)
    \/ Render
    \/ \E h \in intervals : IntervalFire(h)
    \/ \E s \in subs, a \in AppStates : handleAppState(s, a)
    \/ Unmount
    \/ \E d \in LiveClockSteps : AdvanceLiveClock(d)

SpecLive ==
    /\ InitObs
    /\ [][NextLive]_vars
    /\ WF_vars(\E h \in intervals : IntervalFire(h))
    /\ WF_vars(\E d \in LiveClockSteps : AdvanceLiveClock(d))

\* Sessions one after the other: each load reads what the session before
\* it left in storage.
NextPersist ==
    \/ HydrateInstall
    \/ onRehydrateStorage
    \/ onRehydrateStorageSkipped
    \/ hydration = "done" /\ nops < MaxSessionOps /\ NextFull /\ UNCHANGED uiVars
    \/ \E d \in ClockSteps : AdvanceClock(d)
    \/ Relaunch

SpecPersist == InitSession /\ [][NextPersist]_vars

\* The modal of one card: selections, their fetches settling either way, and
\* the card's other handlers on the same slot.
NextSelectCalls ==
    \/ startUltTimer(ModalIndex)
    \/ cycleLevel(ModalIndex)
    \/ clearChampion(ModalIndex)

MaxSelectOps == 2

NextSelect ==
    \/ \E c \in Champions : handleSelect(c)
    \/ RenderModal
    \/ \E f \in fetches : nops < MaxSelectOps /\ FetchResolve(f)
    \/ \E f \in fetches : FetchReject(f)
    \/ nops < MaxSelectOps /\ NextSelectCalls /\ UNCHANGED uiVars
    \/ \E d \in ClockSteps : AdvanceClock(d)

SpecSelect == Init /\ [][NextSelect]_vars

\* The ping sound module, called by the screen's mount effect and by the
\* timer buttons when a countdown reaches zero.
NextPing ==
    \/ loadPingSound
    \/ playPing
    \/ \E l \in loading : CreateResolve(l)
    \/ \E l \in loading : CreateReject(l)

SpecPing == Init /\ [][NextPing]_vars

\* calculateCooldown called with one pair of arguments after another.
NextFormula == \E b \in BaseInputs, h \in HasteCalls : CallCalculateCooldown(b, h)

SpecFormula == Init /\ [][NextFormula]_vars

\* The card of slot ScenarioIndex with its D circle on screen: the haste
\* toggles, the spell timer started and cleared, and the circle counting.
ScenarioIndex == 0
MaxScenarioOps == 3

NextScenarioCalls ==
    \/ toggleIonianBoots(ScenarioIndex)
    \/ toggleCosmicInsight(ScenarioIndex)
    \/ startSpellTimer(ScenarioIndex, 1)
    \/ clearSpellTimer(ScenarioIndex, 1)

NextScenario ==
    \/ nops < MaxScenarioOps /\ NextScenarioCalls /\ UNCHANGED uiVars
    \/ CircleMount(ScenarioIndex, "spell1EndTime")
    \/ CircleRerender(ScenarioIndex, "spell1EndTime")
    \/ CircleRender
    \/ \E h \in intervals : IntervalFire(h)
    \/ \E d \in ClockSteps : AdvanceClock(d)

SpecScenario == Init /\ [][NextScenario]_vars

\* The store's mutations on the objects behind the state, and a reader.
MaxHeapOps == 3

NextHeapCalls ==
    \/ \E i \in Indices : cycleLevel(i)
    \/ \E i \in Indices : toggleIonianBoots(i)
    \/ \E i \in Indices, h \in HasteInputs : setAbilityHaste(i, h)
    \/ \E i \in Indices, c \in SpellChoices : setSummonerSpell(i, 1, c[1], c[2])
    \/ \E i \in Indices : setChampionData(i, Lux)
    \/ \E i \in Indices : startUltTimer(i)
    \/ \E i \in Indices : startSpellTimer(i, 1)
    \/ \E i \in Indices : clearUltTimer(i)
    \/ resetAll

NextHeap ==
    \/ /\ nops < MaxHeapOps
       /\ NextHeapCalls
       /\ SetState
       /\ UNCHANGED <<selectVars, soundVars, uiEv, result, snap, listVars, circleVars>>
    \/ Capture

InitHeapState ==
    /\ InitStore /\ InitLoaded /\ InitObserver /\ InitModalSound
    /\ InitList /\ InitCircle /\ InitHeap /\ now = 1000

SpecHeap == InitHeapState /\ [][NextHeap]_vars

\* The cards of both variants: every press and long-press on the three
\* circles, the card's other handlers, and time passing.
MaxCardOps == 3

NextCardPresses ==
    \/ \E i \in CardIndices : handleUltPress(i)
    \/ \E i \in CardIndices : handleUltLongPress(i)
    \/ \E i \in CardIndices, s \in SpellSlots : handleSpellPress(i, s)
    \/ \E i \in CardIndices, s \in SpellSlots : handleSpellLongPress(i, s)

NextCardCalls ==
    \/ \E i \in CardIndices : CardCall(cycleLevel(i), "handleLevelToggle")
    \/ \E i \in CardIndices :
          Variant = "full" /\ CardCall(toggleIonianBoots(i), "handleToggleIonian")
    \/ \E i \in CardIndices, c \in SpellChoices :
          Variant = "full" /\ CardCall(setSummonerSpell(i, 1, c[1], c[2]), "picker: selected")
    \/ \E i \in CardIndices :
          Variant = "full" /\ CardCall(setChampionData(i, Lux), "modal: selected")
    \/ CardCall(IF Variant = "full" THEN resetAll ELSE resetAllSimple, "reset")

NextCard ==
    \/ nops < MaxCardOps /\ NextCardPresses
    \/ nops < MaxCardOps /\ NextCardCalls
    \/ \E d \in ClockSteps : AdvanceClock(d)

SpecCard == InitVariants /\ [][NextCard]_vars

\* The search modals of two cards opened and closed, and their list fetches.
NextList ==
    \/ \E i \in CardIndices : OpenModal(i)
    \/ \E i \in CardIndices : CloseModal(i)
    \/ \E f \in listFetches : ListResolve(f)
    \/ \E f \in listFetches : ListReject(f)

SpecList == Init /\ [][NextList]_vars

\* The R circle of the card of slot ScenarioIndex while the store changes
\* under it: a champion, the timer, ability haste and the level.
NextProgressCalls ==
    \/ setChampionData(ScenarioIndex, Lux)
    \/ startUltTimer(ScenarioIndex)
    \/ \E h \in HasteInputs : setAbilityHaste(ScenarioIndex, h)
    \/ cycleLevel(ScenarioIndex)

NextProgress ==
    \/ nops < MaxScenarioOps /\ NextProgressCalls /\ UNCHANGED uiVars
    \/ CircleMount(ScenarioIndex, "ultEndTime")
    \/ CircleRerender(ScenarioIndex, "ultEndTime")
    \/ CircleRender
    \/ \E h \in intervals : IntervalFire(h)
    \/ \E d \in ClockSteps : AdvanceClock(d)

SpecProgress == Init /\ [][NextProgress]_vars

\* The R circle of the card of slot ScenarioIndex: the timer is started,
\* replaced, cleared, the champion reassigned, everything reset, while the
\* circle counts down.  A pending render of the circle is over before the next
\* gesture reaches the store and before the clock has moved on by a step.
CircleSettled ==
    obs = "mounted" =>
        (endTime = enemies[ScenarioIndex].ultEndTime /\ returned = remaining)

NextExpiryCalls ==
    \/ setChampionData(ScenarioIndex, Lux)
    \/ startUltTimer(ScenarioIndex)
    \/ clearUltTimer(ScenarioIndex)
    \/ resetAll

NextExpiry ==
    \/ nops < MaxOps /\ CircleSettled /\ NextExpiryCalls /\ UNCHANGED uiVars
    \/ CircleMount(ScenarioIndex, "ultEndTime")
    \/ CircleRerender(ScenarioIndex, "ultEndTime")
    \/ CircleRender
    \/ \E h \in intervals : IntervalFire(h)
    \/ \E s \in subs : handleAppState(s, "active")
    \/ \E d \in ClockSteps : AdvanceClock(d)

SpecExpiry == Init /\ [][NextExpiry]_vars

\* ------------------------------------------------------------------ claims

TimerFields == {"ultEndTime", "spell1EndTime", "spell2EndTime"}
SlotIndices == 0..(NumSlots - 1)

\* The end-time e is set and strictly after the clock.
Running(e, clock) == ~IsNull(e) /\ RatGtInt(Val(e), clock)

\* The step is a call of the store operation op.
StoreStep(op) == last'.op = op /\ nops' = nops + 1

\* r is the least whole number of seconds, not below 0, covering e - clock ms.
IsCeilSeconds(r, e, clock) ==
    /\ r >= 0
    /\ RatLeInt(e, clock) => r = 0
    /\ RatGtInt(e, clock) =>
          /\ r >= 1
          /\ e[1] - clock * e[2] <= r * 1000 * e[2]
          /\ e[1] - clock * e[2] > (r - 1) * 1000 * e[2]

\* C1: a start of a timer whose end-time is strictly after the clock changes
\* nothing in the store (startUltTimer, startSpellTimer for either spell).
C1_StartWhileRunningIsNoOp ==
    [][\A i \in SlotIndices :
          /\ (StoreStep("startUltTimer") /\ last'.index = i
                /\ Running(enemies[i].ultEndTime, now)) => enemies' = enemies
          /\ (StoreStep("startSpellTimer") /\ last'.index = i /\ last'.slot = 1
                /\ Running(enemies[i].spell1EndTime, now)) => enemies' = enemies
          /\ (StoreStep("startSpellTimer") /\ last'.index = i /\ last'.slot = 2
                /\ Running(enemies[i].spell2EndTime, now)) => enemies' = enemies
      ]_vars

\* C2: in every reachable store state every slot's activeUltCooldown is null
\* exactly at level 1 and is otherwise the entry of ultBaseCooldowns for the
\* level (6, 11, 16 -> entry 0, 1, 2), also after a setChampion that supplied
\* an activeUltCooldown of its own.
C2_ActiveUltCooldownDerived ==
    \A k \in SlotIndices :
        LET c == enemies[k] IN
        /\ IsNull(c.activeUltCooldown) <=> c.currentLevel = 1
        /\ c.currentLevel = 6 => c.activeUltCooldown = Some(c.ultBaseCooldowns[1])
        /\ c.currentLevel = 11 => c.activeUltCooldown = Some(c.ultBaseCooldowns[2])
        /\ c.currentLevel = 16 => c.activeUltCooldown = Some(c.ultBaseCooldowns[3])

\* A setChampion that supplied activeUltCooldown = 999 has acted on a slot of
\* level 6 holding Lux, and the slot holds the derived 80.
C2_Witness ==
    /\ last.op = "setChampion" /\ last.index = 2
    /\ "activeUltCooldown" \in last.keys
    /\ enemies[2].currentLevel = 6
    /\ enemies[2].ultBaseCooldowns = <<80, 60, 40>>
    /\ enemies[2].activeUltCooldown = Some(80)

\* C3: after a rehydration that completed without error, each of the three
\* end-times of each slot is null when the stored one was null or at or before
\* the clock the callback read, is the stored one when that was strictly after
\* the clock, and every other field equals the stored field.
C3_RehydrationSanitizes ==
    (hydration = "done" /\ stored.kind = "state") =>
        /\ DOMAIN enemies = DOMAIN stored.enemies
        /\ \A k \in DOMAIN stored.enemies :
            /\ \A f \in TimerFields :
                LET e == stored.enemies[k][f] IN
                /\ IsNull(e) => IsNull(enemies[k][f])
                /\ (~IsNull(e) /\ RatLeInt(Val(e), loadClock)) => IsNull(enemies[k][f])
                /\ (~IsNull(e) /\ RatGtInt(Val(e), loadClock)) => enemies[k][f] = e
            /\ \A f \in (DOMAIN stored.enemies[k]) \ TimerFields :
                enemies[k][f] = stored.enemies[k][f]

\* A load at clock 41000 of a slot stored with an ultimate end-time in the past,
\* a spell 1 end-time equal to the clock and a spell 2 end-time after it.
C3_Witness ==
    /\ hydration = "done" /\ stored.kind = "state" /\ loadClock = 41000
    /\ stored.enemies[2].ultEndTime = Some(<<500, 1>>)
    /\ stored.enemies[2].spell1EndTime = Some(<<41000, 1>>)
    /\ stored.enemies[2].spell2EndTime = Some(<<3000000, 13>>)
    /\ enemies[2].spell2EndTime = Some(<<3000000, 13>>)
    /\ enemies[2].abilityHaste = 100

\* C4: between the installation of the stored state and the clean-up write no
\* slot of the store holds an end-time that is set and at or before the clock.
C4_NoUnsanitizedStateVisible ==
    hydration = "installed" =>
        \A k \in DOMAIN enemies : \A f \in TimerFields :
            IsNull(enemies[k][f]) \/ RatGtInt(Val(enemies[k][f]), now)

\* C5: at most one interval handle is live, it is the one intervalRef holds and
\* its tick belongs to the endTime of the last render (the previous endTime's
\* handle is gone); at most one AppState listener is live; after teardown no
\* handle and no listener is live.
C5_OnePollerNoLeak ==
    /\ Cardinality(intervals) <= 1
    /\ \A h \in intervals : intervalRef = Some(h.id) /\ endTime = Some(h.endTime)
    /\ Cardinality(subs) <= 1
    /\ \A s \in subs : subscription = Some(s.id) /\ endTime = Some(s.endTime)
    /\ obs = "gone" => (intervals = {} /\ subs = {})

\* The endTime changed from 11500 to 12000.5 while the first was still running,
\* and one handle is live.
C5_Witness ==
    /\ ev = "endTime"
    /\ prevEnd = Some(<<11500, 1>>) /\ endTime = Some(<<24001, 2>>)
    /\ now < 11500
    /\ Cardinality(intervals) = 1

\* C6: once a tick has computed 0 for the endTime of the last render, no
\* interval handle is live.
C6_NoPollerAfterZero ==
    (obs = "mounted" /\ ~IsNull(endTime) /\ zeroSeen) => intervals = {}

\* C7: while endTime is null the hook has returned 0 at every render since the
\* endTime became null, and no interval handle is live.
C7_ClearReadsZero ==
    (obs = "mounted" /\ IsNull(endTime)) => (returned = 0 /\ intervals = {})

\* C8: a change of the app state to active, with a non-null endTime, sets
\* remaining to the value for the current clock; with endTime after the clock
\* exactly one interval is live afterwards (a new one when none was live, the
\* same one otherwise); with endTime at or before the clock remaining is 0 and
\* no interval is live.
C8_ForegroundResync ==
    [][(ev' \in {"active", "active: interval restarted"} /\ now' = now
            /\ ~IsNull(endTime)) =>
          LET e == Val(endTime) IN
          /\ IsCeilSeconds(remaining', e, now)
          /\ RatGtInt(e, now) =>
                /\ Cardinality(intervals') = 1
                /\ \A h \in intervals' : intervalRef' = Some(h.id) /\ h.endTime = e
                /\ intervals # {} => intervals' = intervals
          /\ RatLeInt(e, now) => (remaining' = 0 /\ intervals' = {})
      ]_vars

\* The app became active with endTime after the clock and no interval live
\* (the clock had been set back after the expiry): one interval was started.
C8_Witness ==
    /\ ev = "active: interval restarted"
    /\ ~IsNull(endTime) /\ RatGtInt(Val(endTime), now)
    /\ Cardinality(intervals) = 1
    /\ remaining > 0

\* C9: the remaining value a tick set is max(0, ceil((endTime - clock) / 1000))
\* for the endTime and the clock of that tick, whatever was shown before.
C9_RemainingIsCeilOfClock ==
    ~IsNull(tickAt) => IsCeilSeconds(remaining, Val(tickAt)[1], Val(tickAt)[2])

\* An interval tick at clock 11000 for an end-time of 1000, ten seconds in the
\* past, set remaining to 0.
C9_Witness ==
    /\ ev = "tick"
    /\ tickAt = Some(<<(<<1000, 1>>), 11000>>)
    /\ remaining = 0

\* C10: cycleLevel on a valid index changes nothing but currentLevel and
\* activeUltCooldown of that slot.
C10_CycleLevelFrame ==
    [][(StoreStep("cycleLevel") /\ last'.index \in SlotIndices) =>
          /\ \A j \in SlotIndices \ {last'.index} : enemies'[j] = enemies[j]
          /\ \A f \in (DOMAIN enemies[last'.index])
                        \ {"currentLevel", "activeUltCooldown"} :
                enemies'[last'.index][f] = enemies[last'.index][f]
      ]_vars

\* cycleLevel has acted on slot 2 while its ultimate timer was running, and the
\* timer is still running.
C10_Witness ==
    /\ last.op = "cycleLevel" /\ last.index = 2
    /\ enemies[2].currentLevel = 11
    /\ Running(enemies[2].ultEndTime, now)

\* C11: in every reachable state of a session the collection has exactly the
\* slots 0..4, and a slot changes only by an operation addressed to its own
\* index, by resetAll, or by the rehydration, which puts the stored slot of
\* the same index there.
C11_FiveSlotsFixed ==
    /\ [](DOMAIN enemies = SlotIndices)
    /\ [][\A j \in (DOMAIN enemies) \cap (DOMAIN enemies') :
            enemies'[j] # enemies[j] =>
                \/ nops' = nops + 1 /\ (last'.op = "resetAll" \/ last'.index = j)
                \/ /\ hydration' # hydration
                   /\ stored.kind = "state"
                   /\ enemies'[j].id = stored.enemies[j].id
         ]_vars

\* A rehydration has put the stored Lux at slot 2, and two operations on slot
\* 2 later the five slots are there and Lux is at slot 2.
C11_Witness ==
    /\ hydration = "done" /\ stored.kind = "state"
    /\ nops = 2 /\ last.op = "toggleIonianBoots" /\ last.index = 2
    /\ DOMAIN enemies = SlotIndices
    /\ enemies[2].id = "Lux" /\ enemies[0].id = ""

\* C12: in every reachable state of the full store each slot's summonerHaste is
\* 12 for ionianBoots plus 18 for cosmicInsight.
C12_SummonerHasteDerived ==
    \A k \in SlotIndices :
        enemies[k].summonerHaste =
            (IF enemies[k].ionianBoots THEN 12 ELSE 0)
            + (IF enemies[k].cosmicInsight THEN 18 ELSE 0)

\* C13: whatever numbers setAbilityHaste was called with and whatever was
\* typed into the haste field, every slot's abilityHaste is 0 or more.
C13_AbilityHasteNotNegative ==
    \A k \in SlotIndices : enemies[k].abilityHaste >= 0

SpellEndField(s) == IF s = 1 THEN "spell1EndTime" ELSE "spell2EndTime"
SpellBaseField(s) == IF s = 1 THEN "spell1BaseCooldown" ELSE "spell2BaseCooldown"

\* e is clock + 1000 * base / (1 + haste / 100) milliseconds, cross-multiplied.
IsEndTime(e, clock, base, haste) ==
    /\ e[2] > 0
    /\ (e[1] - clock * e[2]) * (100 + haste) = e[2] * base * 100000

\* The step changes no slot but i, and of slot i no field outside fields.
OnlyFieldsChange(i, fields) ==
    /\ DOMAIN enemies' = DOMAIN enemies
    /\ \A j \in (DOMAIN enemies) \ {i} : enemies'[j] = enemies[j]
    /\ DOMAIN enemies'[i] = DOMAIN enemies[i]
    /\ \A f \in (DOMAIN enemies[i]) \ fields : enemies'[i][f] = enemies[i][f]

\* C15: in both stores a startSpellTimer whose base cooldown (the slot's in the
\* full store, the argument in the simplified one) is zero or negative changes
\* nothing, and a startSpellTimer that changes the store leaves the addressed
\* end-time strictly after the clock of the call.
C15_NoSpellTimerWithoutDuration ==
    [][\A i \in SlotIndices :
          (StoreStep("startSpellTimer") /\ last'.index = i) =>
              LET f == SpellEndField(last'.slot)
                  base == IF Variant = "full"
                          THEN enemies[i][SpellBaseField(last'.slot)]
                          ELSE last'.arg
              IN /\ base <= 0 => enemies' = enemies
                 /\ enemies' # enemies => Running(enemies'[i][f], now)
      ]_vars

\* C16: an accepted startUltTimer writes clock + 1000 * activeUltCooldown /
\* (1 + abilityHaste / 100) to ultEndTime; an accepted startSpellTimer writes
\* clock + 1000 * base / (1 + haste / 100) to that spell's end-time, with the
\* slot's base cooldown and summonerHaste in the full store and the argument
\* and abilityHaste in the simplified one; nothing else changes.
C16_EndTimeFormula ==
    [][\A i \in SlotIndices :
          /\ (StoreStep("startUltTimer") /\ last'.index = i
                /\ ~IsNull(enemies[i].activeUltCooldown)) =>
                /\ ~IsNull(enemies'[i].ultEndTime)
                /\ IsEndTime(Val(enemies'[i].ultEndTime), now,
                             Val(enemies[i].activeUltCooldown),
                             enemies[i].abilityHaste)
                /\ OnlyFieldsChange(i, {"ultEndTime"})
          /\ (StoreStep("startSpellTimer") /\ last'.index = i) =>
                LET f == SpellEndField(last'.slot)
                    full == Variant = "full"
                    base == IF full THEN enemies[i][SpellBaseField(last'.slot)]
                            ELSE last'.arg
                    haste == IF full THEN enemies[i].summonerHaste
                             ELSE enemies[i].abilityHaste
                IN (~full \/ base > 0) =>
                      /\ ~IsNull(enemies'[i][f])
                      /\ IsEndTime(Val(enemies'[i][f]), now, base, haste)
                      /\ OnlyFieldsChange(i, {f})
      ]_vars

\* Lux (80, 60, 40) at level 6 with abilityHaste 100: startUltTimer at clock
\* 1000 on the inactive timer has written 41000.
C16_Witness ==
    /\ Variant = "full"
    /\ last.op = "startUltTimer" /\ last.index = 2
    /\ IsNull(last.before.ultEndTime)
    /\ enemies[2].ultBaseCooldowns = <<80, 60, 40>>
    /\ enemies[2].currentLevel = 6 /\ enemies[2].abilityHaste = 100
    /\ now = 1000
    /\ enemies[2].ultEndTime = Some(<<41000, 1>>)

\* C17: after setChampionData with a valid index the slot has the detail's id
\* and name, the first three cooldowns of the detail's fourth spell (when the
\* detail has them), level 6, activeUltCooldown equal to the first of them, no
\* end-time, haste 0, both toggles off, summonerHaste 0 and the default spells;
\* the other slots are as before.
C17_SetChampionDataReplaces ==
    [][\A i \in SlotIndices :
          (StoreStep("setChampionData") /\ last'.index = i) =>
              LET d == last'.arg
                  c == enemies'[i]
              IN /\ c.id = d.id /\ c.name = d.name
                 /\ (Len(d.spells) >= 4 /\ Len(d.spells[4]) >= 3) =>
                        c.ultBaseCooldowns = SubSeq(d.spells[4], 1, 3)
                 /\ c.currentLevel = 6
                 /\ c.activeUltCooldown = Some(c.ultBaseCooldowns[1])
                 /\ \A f \in TimerFields : IsNull(c[f])
                 /\ c.abilityHaste = 0
                 /\ ~c.ionianBoots /\ ~c.cosmicInsight /\ c.summonerHaste = 0
                 /\ c.spell1Id = "SummonerFlash" /\ c.spell1BaseCooldown = 300
                 /\ c.spell2Id = "SummonerFlash" /\ c.spell2BaseCooldown = 300
                 /\ OnlyFieldsChange(i, DOMAIN enemies[i])
      ]_vars

\* setChampionData has put Udyr (120, 100, 80, 60) on slot 2 while spell 1 of
\* the slot was running: three cooldowns are kept and the timer is gone.
C17_Witness ==
    /\ last.op = "setChampionData" /\ last.index = 2
    /\ Running(last.before.spell1EndTime, now)
    /\ enemies[2].id = "Udyr"
    /\ enemies[2].ultBaseCooldowns = <<120, 100, 80>>
    /\ enemies[2].activeUltCooldown = Some(120)
    /\ IsNull(enemies[2].spell1EndTime)

SpellIdField(s) == IF s = 1 THEN "spell1Id" ELSE "spell2Id"

\* C18: setSummonerSpell with a valid index sets the id and the base cooldown
\* of spell s to the arguments and its end-time to null, and changes no other
\* field of the slot and no other slot.
C18_SetSummonerSpellFrame ==
    [][\A i \in SlotIndices :
          (StoreStep("setSummonerSpell") /\ last'.index = i) =>
              LET sl == last'.slot
                  c == enemies'[i]
              IN /\ c[SpellIdField(sl)] = last'.arg[1]
                 /\ c[SpellBaseField(sl)] = last'.arg[2]
                 /\ IsNull(c[SpellEndField(sl)])
                 /\ OnlyFieldsChange(i, {SpellIdField(sl), SpellBaseField(sl),
                                         SpellEndField(sl)})
      ]_vars

\* Spell 1 of slot 2 was set to Ignite (180) while its timer and the timer of
\* spell 2 were running: timer 1 is inactive, timer 2 still runs.
C18_Witness ==
    /\ last.op = "setSummonerSpell" /\ last.index = 2 /\ last.slot = 1
    /\ Running(last.before.spell1EndTime, now)
    /\ enemies[2].spell1Id = "SummonerIgnite"
    /\ enemies[2].spell1BaseCooldown = 180
    /\ IsNull(enemies[2].spell1EndTime)
    /\ Running(enemies[2].spell2EndTime, now)

\* The slot c is the empty default of its store.
IsEmptyDefault(c) ==
    /\ c.id = "" /\ c.name = ""
    /\ c.ultBaseCooldowns = <<0, 0, 0>>
    /\ c.currentLevel = 1 /\ IsNull(c.activeUltCooldown)
    /\ c.abilityHaste = 0
    /\ \A f \in TimerFields : IsNull(c[f])
    /\ "summonerHaste" \in DOMAIN c =>
          /\ ~c.ionianBoots /\ ~c.cosmicInsight /\ c.summonerHaste = 0
          /\ c.spell1Id = "SummonerFlash" /\ c.spell1BaseCooldown = 300
          /\ c.spell2Id = "SummonerFlash" /\ c.spell2BaseCooldown = 300

\* C19: clearChampion with a valid index leaves that slot the empty default
\* and the other slots as they were; resetAll leaves the five slots empty
\* defaults.
C19_ClearRestoresDefaults ==
    [][/\ \A i \in SlotIndices :
             (StoreStep("clearChampion") /\ last'.index = i) =>
                 /\ IsEmptyDefault(enemies'[i])
                 /\ OnlyFieldsChange(i, DOMAIN enemies[i])
       /\ StoreStep("resetAll") =>
             /\ DOMAIN enemies' = SlotIndices
             /\ \A k \in SlotIndices : IsEmptyDefault(enemies'[k])
      ]_vars

\* clearChampion has acted on slot 2 of the full store, after time had passed,
\* while the timer of its spell 2 was running: the slot is the empty default.
C19_Witness ==
    /\ Variant = "full"
    /\ last.op = "clearChampion" /\ last.index = 2
    /\ Running(last.before.spell2EndTime, now)
    /\ now > 1000
    /\ enemies[2] = createEmptyChampion

\* C20: clearUltTimer and clearSpellTimer with a valid index leave the
\* addressed end-time null and every other field and slot as before; on an
\* end-time that is null already the whole store is as before, so a second
\* clear changes nothing.
C20_ClearTimerFrame ==
    [][\A i \in SlotIndices :
          /\ (StoreStep("clearUltTimer") /\ last'.index = i) =>
                /\ IsNull(enemies'[i].ultEndTime)
                /\ OnlyFieldsChange(i, {"ultEndTime"})
                /\ IsNull(enemies[i].ultEndTime) => enemies' = enemies
          /\ (StoreStep("clearSpellTimer") /\ last'.index = i) =>
                LET f == SpellEndField(last'.slot) IN
                /\ IsNull(enemies'[i][f])
                /\ OnlyFieldsChange(i, {f})
                /\ IsNull(enemies[i][f]) => enemies' = enemies
      ]_vars

\* clearUltTimer has acted on slot 2 whose ultimate timer had expired (its
\* end-time was set and not after the clock): the end-time is null.
C20_Witness ==
    /\ last.op = "clearUltTimer" /\ last.index = 2
    /\ ~IsNull(last.before.ultEndTime)
    /\ RatLeInt(Val(last.before.ultEndTime), now)
    /\ IsNull(enemies[2].ultEndTime)
    /\ enemies[2].id = "Lux"

\* C21: a call of an index-addressed mutation with an index outside 0..4
\* leaves every slot as it was.
C21_InvalidIndexIsNoOp ==
    [][(nops' = nops + 1 /\ last'.op # "resetAll" /\ last'.index \notin SlotIndices)
          => enemies' = enemies
      ]_vars

\* startSpellTimer has been called with index -1 on a store whose slots 2 and
\* 4 hold champions, and the timers of both are as the load left them.
C21_Witness ==
    /\ last.op = "startSpellTimer" /\ last.index = -1
    /\ hydration = "done" /\ nops = 1
    /\ enemies[2].spell1EndTime = Some(<<41000, 1>>)
    /\ enemies[4].spell2EndTime = Some(<<41000, 1>>)

\* C22: a call of an index-addressed mutation with a valid index i leaves
\* every slot other than i as it was, in every field.
C22_OtherSlotsUntouched ==
    [][(nops' = nops + 1 /\ last'.op # "resetAll" /\ last'.index \in SlotIndices)
          => \A j \in SlotIndices \ {last'.index} : enemies'[j] = enemies[j]
      ]_vars

\* startUltTimer has started the ultimate timer of slot 2 while slot 4 held a
\* champion at level 11 with a running spell timer and no ultimate timer, and
\* slot 4 is as the load left it.
C22_Witness ==
    /\ last.op = "startUltTimer" /\ last.index = 2
    /\ enemies[2].ultEndTime # last.before.ultEndTime
    /\ Running(enemies[2].ultEndTime, now)
    /\ enemies[4] = [IndexStored.enemies[4] EXCEPT !.spell2EndTime = Null]
    /\ IsNull(enemies[4].ultEndTime) /\ ~IsNull(enemies[4].activeUltCooldown)
    /\ Running(enemies[4].spell1EndTime, now)

\* The level after level l in the order 1 -> 6 -> 11 -> 16 -> 1.
LevelAfter(l) ==
    CASE l = 1 -> 6 [] l = 6 -> 11 [] l = 11 -> 16 [] l = 16 -> 1

\* C23: after a cycleLevel call on a valid index the slot's level is the one
\* after the level it had at the call, in the order 1 -> 6 -> 11 -> 16 -> 1;
\* the levels at the calls of an unbroken run follow that order; and after
\* four calls in a row the level and activeUltCooldown are the ones the slot
\* had at the first of the four.
C23_FourCyclesReturn ==
    (last.op = "cycleLevel" /\ last.index \in SlotIndices) =>
        LET t == last.cycles
            n == Len(t)
            c == enemies[last.index]
        IN /\ n >= 1
           /\ c.currentLevel = LevelAfter(t[n][1])
           /\ \A k \in 1..(n - 1) : t[k + 1][1] = LevelAfter(t[k][1])
           /\ n >= 4 => /\ c.currentLevel = t[n - 3][1]
                        /\ c.activeUltCooldown = t[n - 3][2]

\* Four cycleLevel calls in a row on slot 2, which held Lux at level 11 with
\* activeUltCooldown 60: the calls found levels 11, 16, 1 and 6, and the slot
\* is at level 11 with 60 again.
C23_Witness ==
    /\ last.op = "cycleLevel" /\ last.index = 2
    /\ last.cycles = <<(<<11, Some(60)>>), (<<16, Some(40)>>),
                       (<<1, Null>>), (<<6, Some(80)>>)>>
    /\ enemies[2].currentLevel = 11
    /\ enemies[2].activeUltCooldown = Some(60)

\* C24: when a start that wrote an end-time to an inactive timer is followed,
\* with no other call between the two and at most two milliseconds later, by
\* the same start, the end-time stays the one the first start wrote (ultimate
\* timer and both spell timers).
C24_SecondStartKeepsEndTime ==
    [][\A i \in SlotIndices :
          /\ (StoreStep("startUltTimer") /\ last'.index = i
                /\ last.op = "startUltTimer" /\ last.index = i
                /\ IsNull(last.before.ultEndTime)
                /\ ~IsNull(enemies[i].ultEndTime)) =>
                enemies'[i].ultEndTime = enemies[i].ultEndTime
          /\ (StoreStep("startSpellTimer") /\ last'.index = i
                /\ last.op = "startSpellTimer" /\ last.index = i
                /\ last.slot = last'.slot
                /\ IsNull(last.before[SpellEndField(last.slot)])
                /\ ~IsNull(enemies[i][SpellEndField(last.slot)])) =>
                enemies'[i][SpellEndField(last.slot)]
                    = enemies[i][SpellEndField(last.slot)]
      ]_vars

\* C25: a mounted observer with an end-time eventually shows remaining 0 with
\* no interval live (or is torn down), and a tick or a change to active at or
\* after the end-time leaves remaining 0 and no interval live at once.
C25_TimerReachesZero ==
    /\ (obs = "mounted" /\ ~IsNull(endTime))
          ~> ((remaining = 0 /\ intervals = {}) \/ obs = "gone")
    /\ [][(ev' \in {"tick", "active", "active: interval restarted"}
             /\ now' = now
             /\ ~IsNull(endTime) /\ RatLeInt(Val(endTime), now)) =>
                (remaining' = 0 /\ intervals' = {})
         ]_vars

\* The timer that ends at 51000, 40 s after the first clock reading: the tick
\* at clock 52000 has set remaining to 0 and no interval is live.
C25_Witness ==
    /\ obs = "mounted" /\ ev = "tick"
    /\ endTime = Some(<<51000, 1>>)
    /\ now = 52000
    /\ tickAt = Some(<<(<<51000, 1>>), 52000>>)
    /\ remaining = 0 /\ intervals = {}

C27_SetChampionDataOnlyAfterFetch ==
    /\ [](selecting # Null => \E f \in fetches : f.state = "pending")
    /\ [][/\ (nops' # nops /\ last'.op = "setChampionData") =>
                \E f \in fetches :
                    /\ f.state = "pending"
                    /\ f.champ \in DOMAIN ChampionData
                    /\ fetches' = Settled(f, "resolved")
                    /\ last'.arg = ChampionData[f.champ]
                    /\ last'.index = f.index
                    /\ selecting' = Null
          /\ (\E f \in fetches : f.state = "pending" /\ fetches' = Settled(f, "rejected")) =>
                /\ enemies' = enemies
                /\ nops' = nops
                /\ selecting' = Null
         ]_vars

\* Lux was selected and her ultimate timer started; a second selection was
\* rejected and the slot still holds Lux and the running timer; the marker is
\* free again and a third selection is in progress.
C27_Witness ==
    /\ \E f \in fetches : f.id = 1 /\ f.champ = "Lux" /\ f.state = "resolved"
    /\ \E f \in fetches : f.id = 2 /\ f.state = "rejected"
    /\ \E f \in fetches : f.id = 3 /\ f.state = "pending"
    /\ uiEv = "select" /\ selecting = Some("Nobody")
    /\ enemies[ModalIndex].id = "Lux"
    /\ Running(enemies[ModalIndex].ultEndTime, now)

\* The store calls that write an end-time field of the slot they address.
TimerWriters ==
    {"startUltTimer", "startSpellTimer", "clearUltTimer", "clearSpellTimer",
     "clearChampion", "setChampionData", "setSummonerSpell"}

\* C28: expired end-times are removed by the rehydration callback, which runs
\* once per load, and by nothing else: an end-time in the store changes only
\* in a store call that writes it (on its slot, or resetAll) or in a step of a
\* load; the payload a relaunch finds in storage is the store's collection
\* with its expired end-times; and an expired end-time reads as remaining 0,
\* the value the observer reports for no end-time.
C28_SanitizedOncePerLoad ==
    /\ [](/\ effect(Observer, Null).remaining = 0
          /\ \A k \in DOMAIN enemies : \A f \in TimerFields :
                (~IsNull(enemies[k][f]) /\ RatLeInt(Val(enemies[k][f]), now))
                    => Diff(Val(enemies[k][f]), now) = 0)
    /\ [][/\ \A k \in DOMAIN enemies : \A f \in TimerFields :
                (~IsNull(enemies[k][f]) /\ enemies'[k][f] # enemies[k][f]) =>
                    \/ hydration' # hydration
                    \/ /\ nops' = nops + 1
                       /\ \/ last'.op = "resetAll"
                          \/ last'.op \in TimerWriters /\ last'.index = k
          /\ loadClock' # loadClock => (hydration = "installed" /\ hydration' = "done")
          /\ (hydration = "installed" /\ hydration' # hydration) =>
                \A k \in DOMAIN enemies' : \A f \in TimerFields :
                    enemies'[k][f] = KeepIfFuture(enemies[k][f], now)
          /\ (hydration = "done" /\ hydration' # hydration) =>
                /\ hydration' = "pending"
                /\ stored' = [kind |-> "state", enemies |-> enemies]
         ]_vars

\* A spell timer restored by the load at 1000 ran out at 41000 during the
\* session; at 81000 the app was started again and storage holds the slot
\* with that end-time, the load that will remove it still pending.
C28_Witness ==
    /\ hydration = "pending" /\ loadClock = 1000 /\ now = 81000
    /\ stored.kind = "state"
    /\ stored.enemies[2].spell1EndTime = Some(<<41000, 1>>)
    /\ stored.enemies[2].ultEndTime = Null
    /\ enemies = EmptyEnemies

\* C29: Audio.Sound.createAsync makes at most one sound object, whatever the
\* calls of loadPingSound and playPing and the order in which they settle.
C29_SoundCreatedOnce == created <= 1

\* p < q for rationals with positive denominators.
RatLess(p, q) == p[1] * q[2] < q[1] * p[2]

\* C30: the value returned is base / (1 + haste / 100); with haste 0 it is the
\* base; it is not negative when neither argument is; and of two calls with
\* the same base > 0 and hastes >= 0, the one with more haste returns less.
C30_CalculateCooldownFormula ==
    /\ [](~IsNull(result) =>
            LET c == Val(result) IN
            /\ c.value[2] > 0
            /\ c.value[1] * (100 + c.haste) = c.base * 100 * c.value[2]
            /\ c.haste = 0 => c.value = RatOfInt(c.base)
            /\ (c.base >= 0 /\ c.haste >= 0) => c.value[1] >= 0)
    /\ [][(/\ ~IsNull(result) /\ ~IsNull(result')
           /\ Val(result').base = Val(result).base /\ Val(result).base > 0
           /\ Val(result).haste >= 0 /\ Val(result').haste > Val(result).haste)
             => RatLess(Val(result').value, Val(result).value)
         ]_vars

\* calculateCooldown(300, 18) returned 15000/59 s, a little over 254 s.
C30_Witness ==
    /\ uiEv = "calculateCooldown"
    /\ result = Some([base |-> 300, haste |-> 18, value |-> <<15000, 59>>])

\* C31: with both haste toggles on (summonerHaste 30) and a base cooldown of
\* 300 s, startSpellTimer writes the end-time now + (300 / 1.30) * 1000, and a
\* tick that reads the clock of the start publishes 231.
C31_Scenario231 ==
    /\ [](\A k \in DOMAIN enemies :
            (enemies[k].ionianBoots /\ enemies[k].cosmicInsight)
                => enemies[k].summonerHaste = 30)
    /\ []((obs = "mounted" /\ ~IsNull(tickAt)
            /\ Val(tickAt)[1] = EndTimeAfter(Val(tickAt)[2], <<3000, 13>>))
                => remaining = 231)
    /\ [][(/\ nops' = nops + 1 /\ last'.op = "startSpellTimer"
           /\ last'.index \in DOMAIN enemies
           /\ enemies[last'.index].summonerHaste = 30
           /\ enemies[last'.index][SpellBaseField(last'.slot)] = 300)
             => LET e == enemies'[last'.index][SpellEndField(last'.slot)] IN
                /\ e = Some(EndTimeAfter(now, <<3000, 13>>))
                /\ (Val(e)[1] - now * Val(e)[2]) * 130 = 300 * 100000 * Val(e)[2]
                /\ Diff(Val(e), now) = 231
         ]_vars

\* Both toggles are on, the D timer was started at 1000, and the circle has
\* rendered with the new end-time at the same clock and shows 231.
C31_Witness ==
    /\ now = 1000 /\ nops = 3 /\ last.op = "startSpellTimer"
    /\ enemies[ScenarioIndex].summonerHaste = 30
    /\ enemies[ScenarioIndex].spell1BaseCooldown = 300
    /\ endTime = enemies[ScenarioIndex].spell1EndTime
    /\ endTime = Some(<<3013000, 13>>)
    /\ obs = "mounted" /\ tickAt = Some(<<(<<3013000, 13>>), 1000>>)
    /\ remaining = 231

\* C32: a mutation that writes publishes a new array, never changes an object
\* that exists, and allocates only whole records of the new state; so the
\* collection a reader took reads the same, field for field, after any
\* mutations, and the state's array always reads as the current collection.
C32_MutationsPublishNewCollection ==
    /\ [](/\ enemies = Deref(root)
          /\ ~IsNull(snap) => Deref(Val(snap).root) = Val(snap).copy)
    /\ [][/\ \A id \in DOMAIN objs : id \in DOMAIN objs' /\ objs'[id] = objs[id]
          /\ enemies' # enemies => root' \notin DOMAIN objs
          /\ \A id \in DOMAIN objs' \ DOMAIN objs :
                objs'[id].kind = "slot" =>
                    \E k \in DOMAIN enemies' : objs'[id].fields = enemies'[k]
         ]_vars

\* A reader took the collection, then Lux was assigned to slot 2 and the
\* level cycled: the state refers to another array and reads differently,
\* and the array the reader holds still reads as the copy made at the time.
C32_Witness ==
    /\ ~IsNull(snap) /\ Val(snap).root # root
    /\ last.op = "cycleLevel" /\ last.index = 2 /\ nops = 2
    /\ enemies[2].id = "Lux" /\ enemies[2].currentLevel = 11
    /\ Val(snap).copy = EmptyEnemies
    /\ Deref(Val(snap).root) = EmptyEnemies

\* The store calls that take a running timer's end-time away or replace the
\* slot: clear, spell reassignment, entity reassignment, reset.
CardTimerWriters ==
    [ultEndTime |-> {"clearUltTimer", "setChampionData", "resetAll"},
     spell1EndTime |-> {"clearSpellTimer", "setSummonerSpell", "setChampionData", "resetAll"},
     spell2EndTime |-> {"clearSpellTimer", "setSummonerSpell", "setChampionData", "resetAll"}]

\* C33: through the card, a press on a circle whose timer is running makes no
\* store call and changes nothing in the store; a long-press calls a clear
\* only on a running timer; and a running timer's end-time changes only in a
\* call of clear, setSummonerSpell, setChampionData or resetAll.
C33_CardGuardsRunningTimer ==
    [][/\ \A k \in DOMAIN enemies : \A f \in TimerFields :
            (Running(enemies[k][f], now) /\ enemies'[k][f] # enemies[k][f]) =>
                (nops' = nops + 1 /\ last'.op \in CardTimerWriters[f])
       /\ (nops' = nops + 1 /\ last'.op = "startUltTimer") =>
            ~Running(enemies[last'.index].ultEndTime, now)
       /\ (nops' = nops + 1 /\ last'.op = "startSpellTimer") =>
            ~Running(enemies[last'.index][SpellEndField(last'.slot)], now)
       /\ (nops' = nops + 1 /\ last'.op = "clearUltTimer") =>
            Running(enemies[last'.index].ultEndTime, now)
       /\ (nops' = nops + 1 /\ last'.op = "clearSpellTimer") =>
            Running(enemies[last'.index][SpellEndField(last'.slot)], now)
       /\ uiEv' \in {"handleUltPress: returned", "handleSpellPress: returned"} =>
            (nops' = nops /\ enemies' = enemies)
      ]_vars

\* Lux's ultimate timer on slot 0 runs until 81000; at 41000 a press on the
\* circle returned without a store call.
C33_Witness ==
    /\ uiEv = "handleUltPress: returned" /\ now = 41000
    /\ enemies[0].id = "Lux"
    /\ enemies[0].ultEndTime = Some(<<81000, 1>>)
    /\ last.op = "startUltTimer" /\ last.index = 0 /\ nops = 2

\* C34: fetchChampionData is called at most once, whatever the openings and
\* closings of the modals and the outcomes of the fetch.
C34_ListFetchedOnce == Cardinality(listFetches) <= 1

\* C35: at most one champion-detail fetch of the modal is pending at a time.
C35_OneDetailFetchInFlight ==
    Cardinality({f \in fetches : f.state = "pending"}) <= 1

\* C36: when the circle has rendered the store's end-time and the current
\* remaining value, its progress is at least 0 and at most 1.
C36_ProgressWithinUnit ==
    (obs = "mounted" /\ endTime = enemies[ScenarioIndex].ultEndTime
        /\ returned = remaining)
      => LET p == progress(ScenarioIndex) IN p[1] >= 0 /\ p[1] <= p[2]

C38_UltTimerOfZeroDuration ==
    [][/\ (/\ last'.op = "startUltTimer" /\ nops' # nops
           /\ last'.index \in SlotIndices
           /\ enemies[last'.index].currentLevel # 1
           /\ enemies[last'.index].activeUltCooldown = Some(0))
          => /\ enemies'[last'.index].ultEndTime = Some(<<now, 1>>)
             /\ ~Running(enemies'[last'.index].ultEndTime, now)
       /\ (/\ Variant = "full" /\ last'.op = "startSpellTimer" /\ nops' # nops
           /\ last'.index \in SlotIndices
           /\ (IF last'.slot = 1 THEN enemies[last'.index].spell1BaseCooldown
               ELSE enemies[last'.index].spell2BaseCooldown) <= 0)
          => enemies' = enemies
      ]_vars

\* An unassigned slot of the full variant was cycled to level 6 and
\* startUltTimer wrote the clock as its ultEndTime.
C38_Witness ==
    /\ Variant = "full" /\ last.op = "startUltTimer" /\ last.index \in SlotIndices
    /\ enemies[last.index].id = ""
    /\ enemies[last.index].currentLevel = 6
    /\ enemies[last.index].activeUltCooldown = Some(0)
    /\ IsNull(last.before.ultEndTime)
    /\ enemies[last.index].ultEndTime = Some(<<now, 1>>)

\* C39: under a clock that only advances, the activation of a non-null
\* endTime at clock t0 publishes max(0, ceil((endTime - t0)/1000)), and while
\* the endTime stays the same every later published remaining is at most the
\* one before it, so none exceeds the first, and a remaining of 0 stays 0.
C39_RemainingNonIncreasing ==
    [][/\ now' >= now
       /\ (ev' \in {"mount", "endTime"} /\ obs' = "mounted" /\ ~IsNull(endTime')
             /\ (ev' = "mount" => obs = "unmounted")
             /\ (ev' = "endTime" => endTime' # endTime))
            => /\ tickAt' = Some(<<Val(endTime'), now>>)
               /\ remaining' = Max(0, CeilDiv(RatSubInt(Val(endTime'), now), 1000))
       /\ (obs = "mounted" /\ obs' = "mounted"
             /\ ~IsNull(endTime) /\ endTime' = endTime)
            => /\ remaining' <= remaining
               /\ remaining = 0 => remaining' = 0
               /\ ~IsNull(tickAt') /\ Val(tickAt')[1] = Val(endTime)
      ]_vars

\* The countdown to 51000, activated at 11000, published 40, then 19 at
\* 32000, then 0, and the listener's tick at 53000 published 0 again.
C39_Witness ==
    /\ obs = "mounted" /\ endTime = Some(<<51000, 1>>)
    /\ ev = "active" /\ now = 53000
    /\ tickAt = Some(<<(<<51000, 1>>), 53000>>)
    /\ zeroSeen /\ remaining = 0 /\ intervals = {}

====
